---- MODULE Spec2Model ----
(***************************************************************************)
(* A model of the Mount & Blade CSV translation scripts:                   *)
(*   translate_protected.py    ProtectedTranslator                         *)
(*   translate_optimized.py    OptimizedMountBladeTranslator               *)
(*   translate_csv.py          MountBladeTranslator                        *)
(*   translate_with_progress.py MountBladeTranslatorWithProgress           *)
(*                                                                         *)
(* Texts are sequences of one-character strings.  The only symbols longer  *)
(* than one character are the seven placeholder bases of                   *)
(* protection_patterns, each written with the "_" that the f-string of     *)
(* _protect_variables puts after it ("PROTECTED_VAR_S_"); the decimal      *)
(* index that follows is kept digit by digit.  No input holds a base.      *)
(***************************************************************************)
EXTENDS Integers, Sequences, FiniteSets, TLC

\* ------------------------------------------------------------------------
\* Bounds of the model
\* ------------------------------------------------------------------------
\* longest input built from distinct pieces
MaxPieces == 3
\* longest input built by repeating one piece
MaxRepeat == 11
\* lines given to a line processor in one behaviour
MaxLines == 2
\* self.max_workers: the size of the pool of service clients
MaxWorkers == 2
\* CSV files in the input directory
MaxFiles == 2
\* lines of one CSV file
MaxEntries == 2

\* texts submitted to one executor
MaxTasks == 3

\* ------------------------------------------------------------------------
\* Python str and re primitives on sequences of characters
\* ------------------------------------------------------------------------
Digits == {"0", "1", "2", "3", "4", "5", "6", "7", "8", "9"}

DigitChar(d) ==
    CASE d = 0 -> "0" [] d = 1 -> "1" [] d = 2 -> "2" [] d = 3 -> "3"
      [] d = 4 -> "4" [] d = 5 -> "5" [] d = 6 -> "6" [] d = 7 -> "7"
      [] d = 8 -> "8" [] d = 9 -> "9"

\* str(i) for i >= 0, as the f-string f"{placeholder_base}_{i}" formats it
RECURSIVE Decimal(_)
Decimal(i) ==
    IF i < 10 THEN <<DigitChar(i)>>
    ELSE Decimal(i \div 10) \o <<DigitChar(i % 10)>>

Range(s) == {s[i] : i \in DOMAIN s}

IsAt(s, p, c) == p >= 1 /\ p <= Len(s) /\ s[p] = c

IsIn(s, p, cs) == p >= 1 /\ p <= Len(s) /\ s[p] \in cs

\* whether lit occurs in s at position p
MatchLit(s, p, lit) ==
    /\ p >= 1
    /\ p + Len(lit) - 1 <= Len(s)
    /\ \A i \in 1..Len(lit) : s[p + i - 1] = lit[i]

Min(S) == CHOOSE x \in S : \A y \in S : x <= y

\* the least element of S, 0 when S is empty
First(S) == IF S = {} THEN 0 ELSE Min(S)

\* str.find: the first position >= from where sub occurs in s, 0 when none
Find(s, sub, from) ==
    First({p \in from..(Len(s) - Len(sub) + 1) : MatchLit(s, p, sub)})

\* str.replace(old, new, 1)
ReplaceFirst(s, old, new) ==
    LET p == Find(s, old, 1)
    IN  IF p = 0 THEN s
        ELSE SubSeq(s, 1, p - 1) \o new \o SubSeq(s, p + Len(old), Len(s))

\* str.replace(old, new): every non-overlapping occurrence, left to right
RECURSIVE ReplaceFrom(_, _, _, _)
ReplaceFrom(s, old, new, from) ==
    LET p == Find(s, old, from)
    IN  IF p = 0 THEN SubSeq(s, from, Len(s))
        ELSE SubSeq(s, from, p - 1) \o new \o ReplaceFrom(s, old, new, p + Len(old))

ReplaceAll(s, old, new) == ReplaceFrom(s, old, new, 1)

\* the first position >= p that holds no digit
DigitsEnd(s, p) ==
    Min({q \in p..(Len(s) + 1) : ~IsIn(s, q, Digits)})

\* the first position >= p that holds "}", 0 when none
CloseBrace(s, p) ==
    First({q \in p..Len(s) : s[q] = "}"})

\* ------------------------------------------------------------------------
\* The regular expressions: each operator gives the position after the
\* match that starts at p, or 0 when the pattern does not match at p
\* ------------------------------------------------------------------------
\* \{[Ss]\d+\}
MatchVarS(s, p) ==
    IF IsAt(s, p, "{") /\ IsIn(s, p + 1, {"S", "s"})
    THEN LET q == DigitsEnd(s, p + 2)
         IN  IF q > p + 2 /\ IsAt(s, q, "}") THEN q + 1 ELSE 0
    ELSE 0

\* \{[Rr]eg\d+\}
MatchVarReg(s, p) ==
    IF IsAt(s, p, "{") /\ IsIn(s, p + 1, {"R", "r"}) /\ MatchLit(s, p + 2, <<"e", "g">>)
    THEN LET q == DigitsEnd(s, p + 4)
         IN  IF q > p + 4 /\ IsAt(s, q, "}") THEN q + 1 ELSE 0
    ELSE 0

\* \{[Pp]layername\}
MatchPlayername(s, p) ==
    IF /\ IsAt(s, p, "{")
       /\ IsIn(s, p + 1, {"P", "p"})
       /\ MatchLit(s, p + 2, <<"l", "a", "y", "e", "r", "n", "a", "m", "e", "}">>)
    THEN p + 12
    ELSE 0

\* \{[^}]*\?[^}]*:[^}]*\}
MatchConditional(s, p) ==
    IF IsAt(s, p, "{")
    THEN LET q == CloseBrace(s, p + 1)
         IN  IF /\ q # 0
                /\ \E i \in (p + 1)..(q - 1) :
                      /\ s[i] = "?"
                      /\ \E j \in (i + 1)..(q - 1) : s[j] = ":"
             THEN q + 1
             ELSE 0
    ELSE 0

\* \{[^}]+\}
MatchOtherVar(s, p) ==
    IF IsAt(s, p, "{")
    THEN LET q == CloseBrace(s, p + 1)
         IN  IF q > p + 1 THEN q + 1 ELSE 0
    ELSE 0

\* \^\^
MatchDoubleCaret(s, p) ==
    IF IsAt(s, p, "^") /\ IsAt(s, p + 1, "^") THEN p + 2 ELSE 0

\* \{/[^}]*\}
MatchSlashVar(s, p) ==
    IF IsAt(s, p, "{") /\ IsAt(s, p + 1, "/")
    THEN LET q == CloseBrace(s, p + 2)
         IN  IF q # 0 THEN q + 1 ELSE 0
    ELSE 0

\* \{[^}]*\}  (the validation and the cleaning of the text for detection)
MatchBraces(s, p) ==
    IF IsAt(s, p, "{")
    THEN LET q == CloseBrace(s, p + 1)
         IN  IF q # 0 THEN q + 1 ELSE 0
    ELSE 0

\* \^+
MatchCarets(s, p) ==
    IF IsAt(s, p, "^")
    THEN Min({q \in (p + 1)..(Len(s) + 1) : ~IsAt(s, q, "^")})
    ELSE 0

\* self.protection_patterns, in the order of the list
protection_patterns ==
    << [pattern |-> "var_s",       base |-> "PROTECTED_VAR_S_"],
       [pattern |-> "var_reg",     base |-> "PROTECTED_VAR_REG_"],
       [pattern |-> "playername",  base |-> "PROTECTED_PLAYERNAME_"],
       [pattern |-> "conditional", base |-> "PROTECTED_CONDITIONAL_"],
       [pattern |-> "other_var",   base |-> "PROTECTED_OTHER_VAR_"],
       [pattern |-> "double_caret", base |-> "PROTECTED_DOUBLE_CARET_"],
       [pattern |-> "slash_var",   base |-> "PROTECTED_SLASH_VAR_"] >>

PlaceholderBases == {protection_patterns[k].base : k \in DOMAIN protection_patterns}

MatchAt(pattern, s, p) ==
    CASE pattern = "var_s"        -> MatchVarS(s, p)
      [] pattern = "var_reg"      -> MatchVarReg(s, p)
      [] pattern = "playername"   -> MatchPlayername(s, p)
      [] pattern = "conditional"  -> MatchConditional(s, p)
      [] pattern = "other_var"    -> MatchOtherVar(s, p)
      [] pattern = "double_caret" -> MatchDoubleCaret(s, p)
      [] pattern = "slash_var"    -> MatchSlashVar(s, p)
      [] pattern = "braces"       -> MatchBraces(s, p)
      [] pattern = "carets"       -> MatchCarets(s, p)

\* re.finditer / re.findall: the matches of pattern in s, scanning from p,
\* leftmost first and not overlapping
\* each match is <<first position, position after the last>>
RECURSIVE FindIter(_, _, _, _)
FindIter(pattern, s, starts, p) ==
    LET b == First({q \in starts : q >= p})
    IN  IF b = 0 THEN <<>>
        ELSE LET e == MatchAt(pattern, s, b)
             IN  <<(<<b, e>>)>> \o FindIter(pattern, s, starts, e)

FindSpans(pattern, s) ==
    FindIter(pattern, s, {q \in 1..Len(s) : MatchAt(pattern, s, q) # 0}, 1)

\* the matched strings: match.group(0) of finditer, and findall
FindAll(pattern, s) ==
    LET spans == FindSpans(pattern, s)
    IN  [i \in DOMAIN spans |-> SubSeq(s, spans[i][1], spans[i][2] - 1)]

\* re.sub(pattern, '', s)
RECURSIVE CutSpans(_, _, _, _)
CutSpans(s, spans, i, from) ==
    IF i > Len(spans) THEN SubSeq(s, from, Len(s))
    ELSE SubSeq(s, from, spans[i][1] - 1) \o CutSpans(s, spans, i + 1, spans[i][2])

ReSubEmpty(pattern, s) == CutSpans(s, FindSpans(pattern, s), 1, 1)

Whitespace == {" "}

\* str.strip()
Strip(s) ==
    LET inner == {p \in 1..Len(s) : s[p] \notin Whitespace}
    IN  IF inner = {} THEN <<>>
        ELSE SubSeq(s, Min(inner), CHOOSE x \in inner : \A y \in inner : y <= x)

\* ------------------------------------------------------------------------
\* The dict replacements: insertion-ordered (placeholder, original) pairs
\* ------------------------------------------------------------------------
DictSet(d, k, v) ==
    IF \E i \in DOMAIN d : d[i][1] = k
    THEN [i \in DOMAIN d |-> IF d[i][1] = k THEN <<k, v>> ELSE d[i]]
    ELSE Append(d, <<k, v>>)

DictKeys(d) == {d[i][1] : i \in DOMAIN d}

\* ------------------------------------------------------------------------
\* ProtectedTranslator._protect_variables
\* ------------------------------------------------------------------------
Placeholder(base, i) == <<base>> \o Decimal(i)

\* the inner loop: the matches were found in the text as it was when the
\* loop over this pattern began; each replaces the first occurrence of the
\* matched string in the text as it is now
RECURSIVE ProtectMatches(_, _, _, _)
ProtectMatches(base, matches, i, acc) ==
    IF i > Len(matches) THEN acc
    ELSE LET original == matches[i]
             placeholder == Placeholder(base, i - 1)
         IN  ProtectMatches(base, matches, i + 1,
                 [text |-> ReplaceFirst(acc.text, original, placeholder),
                  replacements |-> DictSet(acc.replacements, placeholder, original),
                  count |-> acc.count + 1])

RECURSIVE ProtectPatterns(_, _)
ProtectPatterns(k, acc) ==
    IF k > Len(protection_patterns) THEN acc
    ELSE ProtectPatterns(k + 1,
             ProtectMatches(protection_patterns[k].base,
                            FindAll(protection_patterns[k].pattern, acc.text),
                            1, acc))

\* gives [text, replacements, count]: count is what the call adds to
\* stats['protected_variables']
ProtectVariables(text) ==
    ProtectPatterns(1, [text |-> text, replacements |-> <<>>, count |-> 0])

\* ------------------------------------------------------------------------
\* ProtectedTranslator._restore_variables
\* ------------------------------------------------------------------------
RECURSIVE RestoreFrom(_, _, _)
RestoreFrom(text, replacements, i) ==
    IF i > Len(replacements) THEN text
    ELSE RestoreFrom(ReplaceAll(text, replacements[i][1], replacements[i][2]),
                     replacements, i + 1)

RestoreVariables(text, replacements) == RestoreFrom(text, replacements, 1)

\* ------------------------------------------------------------------------
\* The validation of _translate_text: the number of \{[^}]*\} matches of
\* the original and of the restored text are compared
\* ------------------------------------------------------------------------
ValidateVariables(text, final_text) ==
    Len(FindAll("braces", text)) = Len(FindAll("braces", final_text))

\* ------------------------------------------------------------------------
\* Inputs: concatenations of pieces
\* ------------------------------------------------------------------------
Concat2(a, b) == a \o b

RECURSIVE Repeat(_, _)
Repeat(piece, n) == IF n = 0 THEN <<>> ELSE piece \o Repeat(piece, n - 1)

RECURSIVE Flatten(_)
Flatten(ps) == IF ps = <<>> THEN <<>> ELSE Head(ps) \o Flatten(Tail(ps))

TokenPieces ==
    { <<"{", "s", "1", "}">>,
      <<"{", "r", "e", "g", "2", "}">>,
      <<"{", "p", "l", "a", "y", "e", "r", "n", "a", "m", "e", "}">>,
      <<"{", "r", "e", "g", "3", "?", "a", ":", "b", "}">>,
      <<"{", "x", "}">>,
      <<"^", "^">>,
      <<"{", "/", "x", "}">> }

PlainPieces == { <<"o", "u", "i">>, <<" ">> }

\* a conditional whose branches are variables
NestedPieces ==
    { <<"{", "r", "e", "g", "3", "?", "{", "s", "1", "}", ":", "{", "s", "2", "}", "}">> }

Pieces == TokenPieces \cup PlainPieces \cup NestedPieces

PieceSeqs == UNION {[1..n -> Pieces] : n \in 0..MaxPieces}

Inputs ==
    {Flatten(ps) : ps \in PieceSeqs}
        \cup {Repeat(p, n) : p \in TokenPieces, n \in 0..MaxRepeat}

\* text made of plain characters and of brace groups that do not nest:
\* every "{" is closed by a "}" before the next "{", and no placeholder
\* base occurs
PlainTextAndTokens(s) ==
    /\ \A p \in 1..Len(s) : s[p] \notin PlaceholderBases
    /\ \A p \in 1..Len(s) :
          s[p] = "{" =>
              LET q == CloseBrace(s, p + 1)
              IN  q # 0 /\ \A r \in (p + 1)..(q - 1) : s[r] # "{"
    /\ \A q \in 1..Len(s) :
          s[q] = "}" =>
              \E p \in 1..(q - 1) :
                  s[p] = "{" /\ \A r \in (p + 1)..(q - 1) : s[r] # "}"

\* the tokens of a text: its brace groups and its double carets, as a bag
BagOf(seq) == [x \in Range(seq) |-> Cardinality({i \in DOMAIN seq : seq[i] = x})]

TokenBag(s) == BagOf(FindAll("braces", s) \o FindAll("double_caret", s))

\* ------------------------------------------------------------------------
\* What the translation service may answer for a protected text: the text
\* itself, or the text with one placeholder lost, doubled, replaced by
\* another placeholder of the mapping, put in lower case, or set between
\* spaces
\* ------------------------------------------------------------------------
\* a placeholder base in lower case
LoweredBase(base) ==
    CASE base = "PROTECTED_VAR_S_"        -> "protected_var_s_"
      [] base = "PROTECTED_VAR_REG_"      -> "protected_var_reg_"
      [] base = "PROTECTED_PLAYERNAME_"   -> "protected_playername_"
      [] base = "PROTECTED_CONDITIONAL_"  -> "protected_conditional_"
      [] base = "PROTECTED_OTHER_VAR_"    -> "protected_other_var_"
      [] base = "PROTECTED_DOUBLE_CARET_" -> "protected_double_caret_"
      [] base = "PROTECTED_SLASH_VAR_"    -> "protected_slash_var_"

\* the placeholder with its letters in lower case
Lowered(placeholder) ==
    [i \in DOMAIN placeholder |->
        IF placeholder[i] \in PlaceholderBases
        THEN LoweredBase(placeholder[i]) ELSE placeholder[i]]

\* the placeholder with a space on each side
Padded(s) == <<" ">> \o s \o <<" ">>

ServiceOutputs(ptext, repl) ==
    {ptext}
        \cup {ReplaceFirst(ptext, k, <<>>) : k \in DictKeys(repl)}
        \cup {ptext \o k : k \in DictKeys(repl)}
        \cup {ReplaceFirst(ptext, k[1], k[2]) : k \in DictKeys(repl) \X DictKeys(repl)}
        \cup {ReplaceFirst(ptext, k, Lowered(k)) : k \in DictKeys(repl)}
        \cup {ReplaceFirst(ptext, k, Padded(k)) : k \in DictKeys(repl)}

\* ------------------------------------------------------------------------
\* dicts (self.cache) as functions
\* ------------------------------------------------------------------------
EmptyDict == [x \in {} |-> x]

DictPut(d, k, v) == [x \in (DOMAIN d) \cup {k} |-> IF x = k THEN v ELSE d[x]]

\* ------------------------------------------------------------------------
\* ProtectedTranslator._detect_language and _should_translate; detected is
\* what langdetect.detect answers for the cleaned text ("unknown" stands
\* for a LangDetectException as well)
\* ------------------------------------------------------------------------
Languages == {"pt", "fr", "unknown"}

CleanText(text) == Strip(ReSubEmpty("carets", ReSubEmpty("braces", text)))

DetectLanguage(text, detected) ==
    IF Len(CleanText(text)) < 3 THEN "unknown" ELSE detected

ShouldTranslate(text, detected) ==
    IF text = <<>> \/ Len(Strip(text)) < 2 THEN FALSE
    ELSE IF Len(CleanText(text)) < 2 THEN FALSE
    ELSE LET lang == DetectLanguage(text, detected)
         IN  lang # "pt" /\ lang # "unknown"

\* self.stats of ProtectedTranslator.__init__
ProtectedStats ==
    [files_processed |-> 0, lines_translated |-> 0, cache_hits |-> 0,
     translation_requests |-> 0, protected_variables |-> 0, errors |-> 0]

\* ------------------------------------------------------------------------
\* State
\* ------------------------------------------------------------------------
VARIABLES
    cache,            \* self.cache
    stats,            \* self.stats
    text,             \* the text given to _translate_text
    stage,            \* where the call is
    protected_text,   \* _protect_variables(text)[0]
    replacements,     \* _protect_variables(text)[1]
    restored_text,    \* _restore_variables(..., replacements)
    translated,       \* result.text of the service
    final_text,       \* what _translate_text returns
    accepted,         \* whether the validation kept the translation
    script,           \* which of the four translators runs
    lines,            \* the texts of the lines to process, in order
    line_idx,         \* the line being processed
    line_pc,          \* where the processing of that line is
    src_lang,         \* the source language given to the service
    translator,       \* the client taken from translator_queue (0: none)
    translator_queue, \* self.translator_queue
    returned,         \* what the translate function returned for each line
    outcome,          \* how the processing of each line ended
    service_log,      \* the calls of the service: <<source language, text>>
    slept,            \* the rate-limit sleeps made after a call of the service
    run_pc,           \* where the main thread of a run is
    cache_file,       \* the cache file when the translator is constructed
    disk,             \* the cache file now
    escaped,          \* the exception that left __init__ or the run
    n_files,          \* len(csv_files)
    file_idx,         \* files started
    entry_idx,        \* lines of the current file processed
    interrupted,      \* where the KeyboardInterrupt arrived ("no": none)
    files_at_interrupt, \* files started when it arrived
    stats_printed,    \* whether the final statistics were reported
    tasks,            \* the texts submitted to the executor, in order
    task_lang,        \* the source language submitted with each text
    task_pc,          \* where the call that serves each task is
    task_client,      \* the client each call uses for the service (0: none)
    task_value,       \* what each call is about to store or has returned
    task_how,         \* how each call ended
    lock_owner,       \* the task that holds self.cache_lock (0: free)
    pbar_n,           \* pbar.n of the collecting loop
    collected,        \* the tasks whose future the collecting loop has seen
    collector_pc,     \* where the collecting thread is
    dump_start,       \* self.cache when the running json.dump began
    results,          \* results of translate_batch; column 1 of translated_rows
    task_read,        \* per task: the counter value its running += has loaded
    record,           \* the line given to the line processor
    rec_pc,           \* where the line processor is
    parameter,        \* parts[0] of the line
    rec_text,         \* parts[1] of the line
    detections,       \* what detect_language returned, call by call
    target_lang,      \* self.target_lang (dest of the service call)
    rec_out,          \* the line the line processor returned
    file_lines,       \* the lines of the input file
    entry_state,      \* per line: pending, done, or raised an exception
    processed_lines,  \* the lines held in memory (processed_lines, translated_rows)
    output_exists,    \* whether the output file has been opened for writing
    outfile,          \* the lines written to the output file
    file_pc           \* where the processing of the file is

textVars == <<text, stage, protected_text, replacements, restored_text,
              translated, final_text, accepted>>

lineVars == <<script, lines, line_idx, line_pc, src_lang, translator,
              translator_queue, returned, outcome, service_log, slept>>

runVars == <<run_pc, cache_file, disk, escaped, n_files, file_idx, entry_idx,
             interrupted, files_at_interrupt, stats_printed>>

workerVars == <<tasks, task_lang, task_pc, task_client, task_value, task_how,
                lock_owner, pbar_n, collected, collector_pc, dump_start, results,
               task_read>>

recordVars == <<record, rec_pc, parameter, rec_text, detections, target_lang, rec_out>>

fileVars == <<file_lines, entry_state, processed_lines, output_exists, outfile, file_pc>>

vars == <<cache, stats, textVars, lineVars, runVars, workerVars, recordVars, fileVars>>

\* the variables a specification does not use keep these values
TextIdle ==
    /\ text = <<>>
    /\ stage = "idle"
    /\ protected_text = <<>>
    /\ replacements = <<>>
    /\ restored_text = <<>>
    /\ translated = <<>>
    /\ final_text = <<>>
    /\ accepted = FALSE

LineIdle ==
    /\ script = "protected"
    /\ lines = <<>>
    /\ line_idx = 0
    /\ line_pc = "idle"
    /\ src_lang = "none"
    /\ translator = 0
    /\ translator_queue = <<>>
    /\ returned = <<>>
    /\ outcome = <<>>
    /\ service_log = <<>>
    /\ slept = 0

RunIdle ==
    /\ run_pc = "idle"
    /\ cache_file = [state |-> "missing", content |-> [x \in {} |-> x]]
    /\ disk = [state |-> "missing", content |-> [x \in {} |-> x]]
    /\ escaped = "none"
    /\ n_files = 0
    /\ file_idx = 0
    /\ entry_idx = 0
    /\ interrupted = "no"
    /\ files_at_interrupt = 0
    /\ stats_printed = FALSE

WorkerIdle ==
    /\ tasks = <<>>
    /\ task_lang = <<>>
    /\ task_pc = <<>>
    /\ task_client = <<>>
    /\ task_value = <<>>
    /\ task_how = <<>>
    /\ lock_owner = 0
    /\ pbar_n = 0
    /\ collected = {}
    /\ collector_pc = "idle"
    /\ dump_start = [x \in {} |-> x]
    /\ results = <<>>
    /\ task_read = <<>>

FileIdle ==
    /\ file_lines = <<>>
    /\ entry_state = <<>>
    /\ processed_lines = <<>>
    /\ output_exists = FALSE
    /\ outfile = <<>>
    /\ file_pc = "idle"

RecordIdle ==
    /\ record = <<>>
    /\ rec_pc = "idle"
    /\ parameter = <<>>
    /\ rec_text = <<>>
    /\ detections = <<>>
    /\ target_lang = "pt"
    /\ rec_out = <<>>

\* ------------------------------------------------------------------------
\* SpecText: one call of ProtectedTranslator._translate_text on a concrete
\* text, and one round trip of _protect_variables and _restore_variables
\* ------------------------------------------------------------------------
\* a value an earlier run left in the cache file
CachedValue == <<"s", "i", "m">>

TextInit ==
    /\ text \in Inputs
    /\ cache \in {EmptyDict, DictPut(EmptyDict, Strip(text), CachedValue)}
    /\ stats = ProtectedStats
    /\ stage = "start"
    /\ protected_text = <<>>
    /\ replacements = <<>>
    /\ restored_text = <<>>
    /\ translated = <<>>
    /\ final_text = <<>>
    /\ accepted = FALSE
    /\ LineIdle
    /\ RunIdle
    /\ WorkerIdle
    /\ RecordIdle
    /\ FileIdle

\* _protect_variables called on the text
ProtectCall ==
    /\ stage = "start"
    /\ LET r == ProtectVariables(text)
       IN  /\ protected_text' = r.text
           /\ replacements' = r.replacements
           /\ stats' = [stats EXCEPT !.protected_variables = @ + r.count]
    /\ stage' = "rt_protected"
    /\ UNCHANGED <<cache, text, restored_text, translated, final_text, accepted>>
    /\ UNCHANGED <<lineVars, runVars, workerVars, recordVars, fileVars>>

\* _restore_variables called on what _protect_variables gave
RestoreCall ==
    /\ stage = "rt_protected"
    /\ restored_text' = RestoreVariables(protected_text, replacements)
    /\ stage' = "roundtrip"
    /\ UNCHANGED <<cache, stats, text, protected_text, replacements, translated,
                   final_text, accepted>>
    /\ UNCHANGED <<lineVars, runVars, workerVars, recordVars, fileVars>>

\* lines 155-156
GateText ==
    /\ stage = "start"
    /\ \E detected \in Languages :
          IF ShouldTranslate(text, detected)
          THEN stage' = "lookup" /\ final_text' = final_text
          ELSE stage' = "skipped" /\ final_text' = text
    /\ UNCHANGED <<cache, stats, text, protected_text, replacements, restored_text,
                   translated, accepted>>
    /\ UNCHANGED <<lineVars, runVars, workerVars, recordVars, fileVars>>

\* lines 158-163
LookupText ==
    /\ stage = "lookup"
    /\ LET cache_key == Strip(text)
       IN  IF cache_key \in DOMAIN cache
           THEN /\ stats' = [stats EXCEPT !.cache_hits = @ + 1]
                /\ final_text' = cache[cache_key]
                /\ stage' = "hit"
           ELSE /\ stage' = "miss"
                /\ UNCHANGED <<stats, final_text>>
    /\ UNCHANGED <<cache, text, protected_text, replacements, restored_text,
                   translated, accepted>>
    /\ UNCHANGED <<lineVars, runVars, workerVars, recordVars, fileVars>>

\* lines 166-171, up to the call of the service
ProtectText ==
    /\ stage = "miss"
    /\ LET r == ProtectVariables(text)
       IN  /\ protected_text' = r.text
           /\ replacements' = r.replacements
           /\ stats' = [stats EXCEPT !.protected_variables = @ + r.count,
                                     !.translation_requests = @ + 1]
    /\ stage' = "calling"
    /\ UNCHANGED <<cache, text, restored_text, translated, final_text, accepted>>
    /\ UNCHANGED <<lineVars, runVars, workerVars, recordVars, fileVars>>

\* self.translator.translate returns
ServiceReturns ==
    /\ stage = "calling"
    /\ \E out \in ServiceOutputs(protected_text, replacements) : translated' = out
    /\ stage' = "translated"
    /\ UNCHANGED <<cache, stats, text, protected_text, replacements, restored_text,
                   final_text, accepted>>
    /\ UNCHANGED <<lineVars, runVars, workerVars, recordVars, fileVars>>

\* self.translator.translate raises: lines 192-195
ServiceRaises ==
    /\ stage = "calling"
    /\ stats' = [stats EXCEPT !.errors = @ + 1]
    /\ final_text' = text
    /\ stage' = "failed"
    /\ UNCHANGED <<cache, text, protected_text, replacements, restored_text,
                   translated, accepted>>
    /\ UNCHANGED <<lineVars, runVars, workerVars, recordVars, fileVars>>

\* lines 174-190: restore, validate (a rejected translation gives the
\* original text), store in the cache, return
FinalizeText ==
    /\ stage = "translated"
    /\ LET restored == RestoreVariables(translated, replacements)
           ok == ValidateVariables(text, restored)
           final == IF ok THEN restored ELSE text
       IN  /\ restored_text' = restored
           /\ accepted' = ok
           /\ final_text' = final
           /\ cache' = DictPut(cache, Strip(text), final)
    /\ stage' = "done"
    /\ UNCHANGED <<stats, text, protected_text, replacements, translated>>
    /\ UNCHANGED <<lineVars, runVars, workerVars, recordVars, fileVars>>

TextNext ==
    \/ ProtectCall
    \/ RestoreCall
    \/ GateText
    \/ LookupText
    \/ ProtectText
    \/ ServiceReturns
    \/ ServiceRaises
    \/ FinalizeText

SpecText == TextInit /\ [][TextNext]_vars

\* ------------------------------------------------------------------------
\* SpecLine: each translator processes lines one after the other.  Texts
\* are names here; the gates' answers and the service's answers are chosen
\* by the environment.
\* ------------------------------------------------------------------------
Scripts == {"csv", "progress", "optimized", "protected"}

Texts == {"t1", "t2"}

\* what the service may answer for a text
Values == {"v1", "v2"}

\* self.translators
Translators == 1..MaxWorkers

RECURSIVE SeqOfSet(_)
SeqOfSet(S) ==
    IF S = {} THEN <<>>
    ELSE LET x == Min(S) IN <<x>> \o SeqOfSet(S \ {x})

\* self.stats of each __init__
StatsOf(s) ==
    CASE s = "csv" ->
           [files_processed |-> 0, lines_translated |-> 0, errors |-> 0]
      [] s = "progress" ->
           [files_processed |-> 0, lines_translated |-> 0, lines_skipped |-> 0,
            errors |-> 0]
      [] s = "optimized" ->
           [files_processed |-> 0, lines_translated |-> 0, lines_skipped |-> 0,
            lines_cached |-> 0, errors |-> 0, languages_detected |-> {}]
      [] s = "protected" -> ProtectedStats

\* get_cache_key of the optimized translator is the MD5 of
\* f"{src_lang}:{text}", taken here as the pair; the protected translator
\* uses text.strip()
CacheKey(s, lang, t) == IF s = "optimized" THEN <<lang, t>> ELSE t

\* a lookup that finds nothing
CacheHitNever(c, cache_key) == FALSE

\* cache_key in self.cache
CacheHit(c, cache_key) == cache_key \in DOMAIN c

LineInit ==
    /\ script \in Scripts
    /\ lines \in UNION {[1..n -> Texts] : n \in 1..MaxLines}
    /\ line_idx = 1
    /\ line_pc = "gate"
    /\ src_lang = "none"
    /\ translator = 0
    /\ translator_queue = IF script = "optimized" THEN SeqOfSet(Translators) ELSE <<>>
    /\ returned = <<>>
    /\ outcome = <<>>
    /\ service_log = <<>>
    /\ slept = 0
    /\ cache = EmptyDict
    /\ stats = StatsOf(script)
    /\ TextIdle
    /\ RunIdle
    /\ WorkerIdle
    /\ RecordIdle
    /\ FileIdle

CurrentLine == lines[line_idx]

\* the line processor returns: the next line, if any
LineEnds(ret, how) ==
    /\ returned' = Append(returned, ret)
    /\ outcome' = Append(outcome, how)
    /\ line_idx' = line_idx + 1
    /\ line_pc' = IF line_idx < Len(lines) THEN "gate" ELSE "end"

\* MountBladeTranslator.translate_text, lines 96-107: a text detected as
\* 'pt' is returned as it is, any other is sent to the service
GateCsv ==
    /\ script = "csv" /\ line_pc = "gate"
    /\ \E detected \in Languages :
          IF detected = "pt"
          THEN /\ LineEnds(CurrentLine, "skipped")
               /\ UNCHANGED <<src_lang, service_log>>
          ELSE /\ src_lang' = "auto"
               /\ service_log' = Append(service_log, <<"auto", CurrentLine>>)
               /\ line_pc' = "call"
               /\ UNCHANGED <<line_idx, returned, outcome>>
    /\ UNCHANGED <<cache, stats, script, lines, translator, translator_queue, slept>>
    /\ UNCHANGED <<textVars, runVars, workerVars, recordVars, fileVars>>

\* MountBladeTranslatorWithProgress.process_line, lines 185-191, up to the
\* call of the service in translate_text
GateProgress ==
    /\ script = "progress" /\ line_pc = "gate"
    /\ \E should_translate \in BOOLEAN :
          IF should_translate
          THEN /\ src_lang' = "fr"
               /\ service_log' = Append(service_log, <<"fr", CurrentLine>>)
               /\ line_pc' = "call"
               /\ UNCHANGED <<stats, line_idx, returned, outcome>>
          ELSE /\ stats' = [stats EXCEPT !.lines_skipped = @ + 1]
               /\ LineEnds(CurrentLine, "skipped")
               /\ UNCHANGED <<src_lang, service_log>>
    /\ UNCHANGED <<cache, script, lines, translator, translator_queue, slept>>
    /\ UNCHANGED <<textVars, runVars, workerVars, recordVars, fileVars>>

\* OptimizedMountBladeTranslator.process_line, lines 304-315, with
\* should_translate and the second detect_language of line 306
GateOptimized ==
    /\ script = "optimized" /\ line_pc = "gate"
    /\ \E detected \in Languages :
          IF detected \in {"pt", "unknown"}
          THEN /\ stats' = [stats EXCEPT
                     !.lines_skipped = @ + 1,
                     !.languages_detected = @ \cup ({detected} \ {"unknown"})]
               /\ LineEnds(CurrentLine, "skipped")
               /\ UNCHANGED src_lang
          ELSE \E again \in Languages :
               /\ stats' = [stats EXCEPT
                     !.languages_detected = @ \cup ({detected, again} \ {"unknown"})]
               /\ src_lang' = IF again = "unknown" THEN "auto" ELSE again
               /\ line_pc' = "lookup"
               /\ UNCHANGED <<line_idx, returned, outcome>>
    /\ UNCHANGED <<cache, script, lines, translator, translator_queue, service_log,
                   slept>>
    /\ UNCHANGED <<textVars, runVars, workerVars, recordVars, fileVars>>

\* ProtectedTranslator._translate_text, lines 155-156
GateProtected ==
    /\ script = "protected" /\ line_pc = "gate"
    /\ \E should_translate \in BOOLEAN :
          IF should_translate
          THEN /\ src_lang' = "auto"
               /\ line_pc' = "lookup"
               /\ UNCHANGED <<line_idx, returned, outcome>>
          ELSE /\ LineEnds(CurrentLine, "skipped")
               /\ UNCHANGED src_lang
    /\ UNCHANGED <<cache, stats, script, lines, translator, translator_queue,
                   service_log, slept>>
    /\ UNCHANGED <<textVars, runVars, workerVars, recordVars, fileVars>>

\* translate_text_cached, lines 215-223: a hit returns the cached value
\* (and process_line counts the line as translated); a miss takes a client
\* from the queue
LookupOptimized ==
    /\ script = "optimized" /\ line_pc = "lookup"
    /\ LET cache_key == CacheKey(script, src_lang, CurrentLine)
       IN  IF CacheHit(cache, cache_key)
           THEN /\ stats' = [stats EXCEPT !.lines_cached = @ + 1,
                                          !.lines_translated = @ + 1]
                /\ LineEnds(cache[cache_key], "hit")
                /\ UNCHANGED <<translator, translator_queue, service_log>>
           ELSE /\ translator_queue # <<>>
                /\ translator' = Head(translator_queue)
                /\ translator_queue' = Tail(translator_queue)
                /\ service_log' = Append(service_log, <<src_lang, CurrentLine>>)
                /\ line_pc' = "call"
                /\ UNCHANGED <<stats, line_idx, returned, outcome>>
    /\ UNCHANGED <<cache, script, lines, src_lang, slept>>
    /\ UNCHANGED <<textVars, runVars, workerVars, recordVars, fileVars>>

\* _translate_text, lines 158-171: a hit returns the cached value; a miss
\* protects the text, counts the request and calls the service
LookupProtected ==
    /\ script = "protected" /\ line_pc = "lookup"
    /\ LET cache_key == CacheKey(script, src_lang, CurrentLine)
       IN  IF CacheHit(cache, cache_key)
           THEN /\ stats' = [stats EXCEPT !.cache_hits = @ + 1]
                /\ LineEnds(cache[cache_key], "hit")
                /\ UNCHANGED service_log
           ELSE /\ stats' = [stats EXCEPT !.translation_requests = @ + 1]
                /\ service_log' = Append(service_log, <<src_lang, CurrentLine>>)
                /\ line_pc' = "call"
                /\ UNCHANGED <<line_idx, returned, outcome>>
    /\ UNCHANGED <<cache, script, lines, src_lang, translator, translator_queue, slept>>
    /\ UNCHANGED <<textVars, runVars, workerVars, recordVars, fileVars>>

\* the service answers.  csv: lines 109-114.  progress: lines 148-153 and
\* 187, with time.sleep(0.1).  optimized: lines 227-239 and 311, with
\* time.sleep(self.delay).  protected: lines 172-190, where
\* the validation keeps the translation or puts the original text back.
CallReturns ==
    /\ line_pc = "call"
    /\ \E v \in Values, valid \in BOOLEAN :
          LET cache_key == CacheKey(script, src_lang, CurrentLine)
              final == IF script = "protected" /\ ~valid THEN CurrentLine ELSE v
          IN  /\ script # "protected" => valid
              /\ cache' = IF script \in {"optimized", "protected"}
                          THEN DictPut(cache, cache_key, final)
                          ELSE cache
              /\ stats' = IF script \in {"progress", "optimized"}
                          THEN [stats EXCEPT !.lines_translated = @ + 1]
                          ELSE stats
              /\ LineEnds(final, IF final = v THEN "translated" ELSE "rejected")
    /\ translator' = 0
    /\ translator_queue' = IF script = "optimized"
                           THEN Append(translator_queue, translator)
                           ELSE translator_queue
    /\ slept' = IF script \in {"progress", "optimized"} THEN slept + 1 ELSE slept
    /\ UNCHANGED <<script, lines, src_lang, service_log>>
    /\ UNCHANGED <<textVars, runVars, workerVars, recordVars, fileVars>>

\* the service raises.  csv: lines 116-118.  progress: lines 155-158 and
\* 187.  optimized: lines 237-244 and 311.  protected: lines 192-195.
CallRaises ==
    /\ line_pc = "call"
    /\ stats' = CASE script = "csv" -> stats
                  [] script = "progress" ->
                       [stats EXCEPT !.errors = @ + 1, !.lines_translated = @ + 1]
                  [] script = "optimized" ->
                       [stats EXCEPT !.errors = @ + 1, !.lines_translated = @ + 1]
                  [] script = "protected" ->
                       [stats EXCEPT !.errors = @ + 1]
    /\ LineEnds(CurrentLine, "raised")
    /\ translator' = 0
    /\ translator_queue' = IF script = "optimized"
                           THEN Append(translator_queue, translator)
                           ELSE translator_queue
    /\ UNCHANGED <<cache, script, lines, src_lang, service_log, slept>>
    /\ UNCHANGED <<textVars, runVars, workerVars, recordVars, fileVars>>

LineNext ==
    \/ GateCsv
    \/ GateProgress
    \/ GateOptimized
    \/ GateProtected
    \/ LookupOptimized
    \/ LookupProtected
    \/ CallReturns
    \/ CallRaises

SpecLine == LineInit /\ [][LineNext]_vars

\* ------------------------------------------------------------------------
\* SpecRun: one run of a translator that keeps a cache: __init__, then
\* translate_all (optimized) or translate_all_files (protected).  The user
\* may press Ctrl-C once while the run is under way.  The processing of a
\* line is kept to its effect on the cache.
\* ------------------------------------------------------------------------
CachingScripts == {"optimized", "protected"}

\* what a cache file may hold: nothing readable, or a dict
NoFile == [state |-> "missing", content |-> EmptyDict]

CorruptFile == [state |-> "corrupt", content |-> EmptyDict]

\* the file that save_cache or _save_cache writes: json.dump(self.cache)
SavedFile(d) == [state |-> "valid", content |-> d]

CacheFiles ==
    {NoFile, CorruptFile, SavedFile(EmptyDict), SavedFile(DictPut(EmptyDict, "t1", "v1"))}

\* whether the logger that the except clause of the cache load uses exists
\* when the load runs: optimized logs to the module's logger (line 41);
\* protected calls _load_cache on line 35 and assigns self.logger on
\* line 47
LoggerReadyAtLoad(s) == s = "optimized"

RunInit ==
    /\ script \in CachingScripts
    /\ cache_file \in CacheFiles
    /\ disk = cache_file
    /\ n_files \in 0..MaxFiles
    /\ run_pc = "construct"
    /\ escaped = "none"
    /\ file_idx = 0
    /\ entry_idx = 0
    /\ interrupted = "no"
    /\ files_at_interrupt = 0
    /\ stats_printed = FALSE
    /\ cache = EmptyDict
    /\ stats = StatsOf(script)
    /\ TextIdle
    /\ lines = <<>>
    /\ line_idx = 0
    /\ line_pc = "idle"
    /\ src_lang = "none"
    /\ translator = 0
    /\ translator_queue = <<>>
    /\ returned = <<>>
    /\ outcome = <<>>
    /\ service_log = <<>>
    /\ slept = 0
    /\ WorkerIdle
    /\ RecordIdle
    /\ FileIdle

\* __init__ with load_cache (optimized, lines 95-110) or _load_cache
\* (protected, lines 77-85)
Construct ==
    /\ run_pc = "construct"
    /\ translator_queue' = IF script = "optimized" THEN SeqOfSet(Translators) ELSE <<>>
    /\ IF cache_file.state = "missing"
       THEN cache' = EmptyDict /\ run_pc' = "glob" /\ escaped' = escaped
       ELSE IF cache_file.state = "corrupt"
       THEN IF LoggerReadyAtLoad(script)
            THEN cache' = EmptyDict /\ run_pc' = "glob" /\ escaped' = escaped
            ELSE cache' = cache /\ run_pc' = "raised" /\ escaped' = "AttributeError"
       ELSE cache' = cache_file.content /\ run_pc' = "glob" /\ escaped' = escaped
    /\ UNCHANGED <<stats, textVars, workerVars, recordVars, fileVars, script, lines, line_idx, line_pc, src_lang,
                   translator, returned, outcome, service_log, slept>>
    /\ UNCHANGED <<cache_file, disk, n_files, file_idx, entry_idx, interrupted,
                   files_at_interrupt, stats_printed>>

\* the list of CSV files: with none the run returns at once
Glob ==
    /\ run_pc = "glob"
    /\ run_pc' = IF n_files = 0 THEN "returned" ELSE "loop"
    /\ UNCHANGED <<cache, stats, textVars, lineVars, workerVars, recordVars, fileVars>>
    /\ UNCHANGED <<cache_file, disk, escaped, n_files, file_idx, entry_idx,
                   interrupted, files_at_interrupt, stats_printed>>

\* the for statement over csv_files
NextFile ==
    /\ run_pc = "loop"
    /\ IF file_idx < n_files
       THEN file_idx' = file_idx + 1 /\ entry_idx' = 0 /\ run_pc' = "file"
       ELSE UNCHANGED <<file_idx, entry_idx>> /\ run_pc' = "final_save"
    /\ UNCHANGED <<cache, stats, textVars, lineVars, workerVars, recordVars, fileVars>>
    /\ UNCHANGED <<cache_file, disk, escaped, n_files, interrupted,
                   files_at_interrupt, stats_printed>>

\* one line of the file: its translation may add an entry to the cache
ProcessEntry ==
    /\ run_pc = "file"
    /\ entry_idx < MaxEntries
    /\ entry_idx' = entry_idx + 1
    /\ \E t \in Texts, v \in Values, stored \in BOOLEAN :
          cache' = IF stored THEN DictPut(cache, t, v) ELSE cache
    /\ stats' = [stats EXCEPT !.lines_translated = @ + 1]
    /\ UNCHANGED <<textVars, lineVars, workerVars, recordVars, fileVars>>
    /\ UNCHANGED <<run_pc, cache_file, disk, escaped, n_files, file_idx,
                   interrupted, files_at_interrupt, stats_printed>>

\* the lines of the file are done.  optimized: the first batch ends with
\* i = 0, so save_cache runs (lines 363-364).  protected: the file is
\* written (lines 277-283), then time.sleep(1) of line 305.
EndOfLines ==
    /\ run_pc = "file"
    /\ entry_idx = MaxEntries
    /\ IF script = "optimized"
       THEN run_pc' = "batch_save" /\ stats' = stats
       ELSE /\ run_pc' = "loop"
            /\ stats' = [stats EXCEPT !.files_processed = @ + 1]
    /\ UNCHANGED <<cache, textVars, lineVars, workerVars, recordVars, fileVars>>
    /\ UNCHANGED <<cache_file, disk, escaped, n_files, file_idx, entry_idx,
                   interrupted, files_at_interrupt, stats_printed>>

\* optimized, process_file_optimized lines 363-372 and translate_all
\* lines 405-406: save_cache, write the output file, count the file
BatchSave ==
    /\ run_pc = "batch_save"
    /\ disk' = SavedFile(cache)
    /\ stats' = [stats EXCEPT !.files_processed = @ + 1]
    /\ run_pc' = "file_save"
    /\ UNCHANGED <<cache, textVars, lineVars, workerVars, recordVars, fileVars>>
    /\ UNCHANGED <<cache_file, escaped, n_files, file_idx, entry_idx,
                   interrupted, files_at_interrupt, stats_printed>>

\* optimized, translate_all line 416
FileSave ==
    /\ run_pc = "file_save"
    /\ disk' = SavedFile(cache)
    /\ run_pc' = "loop"
    /\ UNCHANGED <<cache, stats, textVars, lineVars, workerVars, recordVars, fileVars>>
    /\ UNCHANGED <<cache_file, escaped, n_files, file_idx, entry_idx,
                   interrupted, files_at_interrupt, stats_printed>>

\* the save after the loop: optimized line 425, protected line 308
FinalSave ==
    /\ run_pc = "final_save"
    /\ disk' = SavedFile(cache)
    /\ run_pc' = "print_stats"
    /\ UNCHANGED <<cache, stats, textVars, lineVars, workerVars, recordVars, fileVars>>
    /\ UNCHANGED <<cache_file, escaped, n_files, file_idx, entry_idx,
                   interrupted, files_at_interrupt, stats_printed>>

\* print_stats (optimized line 430), _print_statistics (protected line 311)
PrintStats ==
    /\ run_pc = "print_stats"
    /\ stats_printed' = TRUE
    /\ run_pc' = "returned"
    /\ UNCHANGED <<cache, stats, textVars, lineVars, workerVars, recordVars, fileVars>>
    /\ UNCHANGED <<cache_file, disk, escaped, n_files, file_idx, entry_idx,
                   interrupted, files_at_interrupt>>

\* the positions of the main thread while a file is processed
FilePcs == {"file", "batch_save", "file_save"}

\* the positions where a cache save is being written
SavePcs == {"batch_save", "file_save", "final_save"}

\* the positions that the try of translate_all, lines 401-416, covers; its
\* except KeyboardInterrupt clause breaks out of the loop.
\* translate_all_files of the protected translator has no such clause, and
\* the except Exception clauses do not catch a KeyboardInterrupt.
InterruptCaught == script = "optimized" /\ run_pc \in FilePcs

\* Ctrl-C: KeyboardInterrupt is raised in the main thread.  A save that it
\* cuts short may leave a truncated file.
Interrupt ==
    /\ run_pc \in {"loop", "file", "batch_save", "file_save", "final_save", "print_stats"}
    /\ interrupted = "no"
    /\ interrupted' = run_pc
    /\ files_at_interrupt' = file_idx
    /\ disk' \in IF run_pc \in SavePcs THEN {disk, CorruptFile} ELSE {disk}
    /\ IF InterruptCaught
       THEN run_pc' = "final_save" /\ escaped' = escaped
       ELSE run_pc' = "raised" /\ escaped' = "KeyboardInterrupt"
    /\ UNCHANGED <<cache, stats, textVars, lineVars, workerVars, recordVars, fileVars>>
    /\ UNCHANGED <<cache_file, n_files, file_idx, entry_idx, stats_printed>>

RunNext ==
    \/ Construct
    \/ Glob
    \/ NextFile
    \/ ProcessEntry
    \/ EndOfLines
    \/ BatchSave
    \/ FileSave
    \/ FinalSave
    \/ PrintStats
    \/ Interrupt

SpecRun == RunInit /\ [][RunNext]_vars

\* ------------------------------------------------------------------------
\* SpecWorkers and SpecBatch: the texts of one file (SpecWorkers: protected,
\* translate_csv_file) or of one batch (SpecBatch: optimized,
\* translate_batch) are submitted to a ThreadPoolExecutor; the worker
\* threads run _translate_text or translate_text_cached side by side and
\* the submitting thread collects the futures with as_completed.  Every
\* step of a thread between two accesses of shared state is one action.
\* ------------------------------------------------------------------------
\* the period of the cache save in the collecting loop of translate_csv_file
SaveEvery == 100

\* a file whose earlier rows have all been collected: first row, or one row
\* short of a periodic save
CollectedAtStart == {0, SaveEvery - 1}

\* self.translator of ProtectedTranslator.__init__: the one client object
SharedTranslator == 1

\* max_workers of the executor: translate_batch gives
\* min(len(texts_batch), self.max_workers), translate_csv_file its max_workers
PoolThreads(s, n) ==
    IF s = "optimized" THEN (IF n < MaxWorkers THEN n ELSE MaxWorkers)
    ELSE MaxWorkers

\* the source language of a submitted text: _translate_text passes
\* src='auto'; a batch holds texts detected as French
SubmittedLang(s) == IF s = "optimized" THEN "fr" ELSE "auto"

TaskIds == DOMAIN tasks

TaskKey(w) == CacheKey(script, task_lang[w], tasks[w])

\* the tasks a worker thread is running
Running == {w \in TaskIds : task_pc[w] \notin {"queued", "done"}}

ExecutorInit ==
    /\ tasks \in UNION {[1..n -> Texts] : n \in 0..MaxTasks}
    /\ task_lang = [w \in DOMAIN tasks |-> SubmittedLang(script)]
    /\ task_pc = [w \in DOMAIN tasks |-> "queued"]
    /\ task_client = [w \in DOMAIN tasks |-> 0]
    /\ task_value = [w \in DOMAIN tasks |-> "none"]
    /\ task_how = [w \in DOMAIN tasks |-> "none"]
    /\ lock_owner = 0
    /\ pbar_n \in IF script = "protected" THEN CollectedAtStart ELSE {0}
    /\ collected = {}
    /\ collector_pc = IF pbar_n = 0 THEN "submit" ELSE "collect"
    /\ dump_start = EmptyDict
    /\ results = [w \in DOMAIN tasks |-> IF script = "optimized" THEN "None" ELSE tasks[w]]
    /\ task_read = [w \in DOMAIN tasks |-> 0]
    /\ cache = EmptyDict
    /\ stats = [StatsOf(script) EXCEPT !.lines_translated = pbar_n]
    /\ translator_queue = IF script = "optimized" THEN SeqOfSet(Translators) ELSE <<>>
    /\ service_log = <<>>
    /\ slept = 0
    /\ disk = NoFile
    /\ TextIdle
    /\ lines = <<>> /\ line_idx = 0 /\ line_pc = "idle" /\ src_lang = "none"
    /\ translator = 0 /\ returned = <<>> /\ outcome = <<>>
    /\ run_pc = "idle" /\ cache_file = NoFile /\ escaped = "none" /\ n_files = 0
    /\ file_idx = 0 /\ entry_idx = 0 /\ interrupted = "no"
    /\ files_at_interrupt = 0 /\ stats_printed = FALSE
    /\ RecordIdle
    /\ FileIdle

WorkerInit == script = "protected" /\ ExecutorInit

BatchInit == script = "optimized" /\ ExecutorInit

\* what the worker actions leave alone
workerRest == <<textVars, script, lines, line_idx, line_pc, src_lang, translator,
                returned, outcome, run_pc, cache_file, escaped, n_files,
                file_idx, entry_idx, interrupted, files_at_interrupt,
                stats_printed, service_log, slept, tasks, task_lang, recordVars, fileVars>>

\* what the worker threads leave alone
threadRest == <<workerRest, results>>

\* the call for task w returns ret
TaskEnds(w, ret, how) ==
    /\ task_pc' = [task_pc EXCEPT ![w] = "done"]
    /\ task_value' = [task_value EXCEPT ![w] = ret]
    /\ task_how' = [task_how EXCEPT ![w] = how]

\* self.stats[counter] += 1 outside any lock is a load, an add and a
\* store: the thread loads the counter here and stores later (StoreCounter)
LoadCounter(w, counter) == task_read' = [task_read EXCEPT ![w] = stats[counter]]

\* ThreadPoolExecutor(max_workers=...) and the submits: the constructor
\* raises ValueError when max_workers is not positive (translate_batch line
\* 258 with an empty batch); with nothing submitted as_completed yields
\* nothing
OpenExecutor ==
    /\ collector_pc = "submit"
    /\ collector_pc' = IF PoolThreads(script, Len(tasks)) <= 0 THEN "raised"
                       ELSE IF tasks = <<>> THEN "finished"
                       ELSE "collect"
    /\ UNCHANGED <<cache, stats, translator_queue, disk, task_pc, task_client,
                   task_value, task_how, lock_owner, pbar_n, collected, dump_start>>
    /\ UNCHANGED <<threadRest, task_read>>

\* a free thread of the executor takes the next submitted task.
\* protected: _translate_text lines 155-156, a text that should not be
\* translated is returned at once.  optimized: translate_text_cached is
\* entered.
StartTask(w) ==
    /\ collector_pc \notin {"submit", "raised"}
    /\ task_pc[w] = "queued"
    /\ \A u \in TaskIds : u < w => task_pc[u] # "queued"
    /\ Cardinality(Running) < PoolThreads(script, Len(tasks))
    /\ IF script = "optimized"
       THEN /\ task_pc' = [task_pc EXCEPT ![w] = "check"]
            /\ UNCHANGED <<task_value, task_how>>
       ELSE \E should_translate \in BOOLEAN :
               IF should_translate
               THEN /\ task_pc' = [task_pc EXCEPT ![w] = "lock_check"]
                    /\ UNCHANGED <<task_value, task_how>>
               ELSE TaskEnds(w, tasks[w], "skipped")
    /\ UNCHANGED <<cache, stats, translator_queue, disk, task_client,
                   lock_owner, pbar_n, collected, collector_pc, dump_start>>
    /\ UNCHANGED <<threadRest, task_read>>

\* protected, line 160 and line 187: with self.cache_lock is entered
AcquireLock(w) ==
    /\ script = "protected"
    /\ task_pc[w] \in {"lock_check", "lock_store"}
    /\ lock_owner = 0
    /\ lock_owner' = w
    /\ task_pc' = [task_pc EXCEPT ![w] = IF task_pc[w] = "lock_check"
                                         THEN "checking" ELSE "storing"]
    /\ UNCHANGED <<cache, stats, translator_queue, disk, task_client,
                   task_value, task_how, pbar_n, collected, collector_pc, dump_start>>
    /\ UNCHANGED <<threadRest, task_read>>

\* protected, lines 161-163, under the lock: a hit returns the cached
\* value, a miss leaves the with block
CheckLocked(w) ==
    /\ script = "protected"
    /\ task_pc[w] = "checking"
    /\ lock_owner' = 0
    /\ IF TaskKey(w) \in DOMAIN cache
       THEN /\ stats' = [stats EXCEPT !.cache_hits = @ + 1]
            /\ TaskEnds(w, cache[TaskKey(w)], "hit")
       ELSE /\ task_pc' = [task_pc EXCEPT ![w] = "request"]
            /\ UNCHANGED <<stats, task_value, task_how>>
    /\ UNCHANGED <<cache, translator_queue, disk, task_client,
                   pbar_n, collected, collector_pc, dump_start>>
    /\ UNCHANGED <<threadRest, task_read>>

\* protected, lines 167-170: the text is protected and
\* translation_requests += 1 begins, outside the lock
RequestShared(w) ==
    /\ script = "protected"
    /\ task_pc[w] = "request"
    /\ LoadCounter(w, "translation_requests")
    /\ task_pc' = [task_pc EXCEPT ![w] = "count"]
    /\ UNCHANGED <<cache, stats, translator_queue, disk, task_client, task_value,
                   task_how, lock_owner, pbar_n, collected, collector_pc, dump_start>>
    /\ UNCHANGED threadRest

\* optimized, lines 214-218, with no lock: on a hit lines_cached += 1
\* begins, a miss goes on to the queue
CheckUnlocked(w) ==
    /\ script = "optimized"
    /\ task_pc[w] = "check"
    /\ IF TaskKey(w) \in DOMAIN cache
       THEN /\ LoadCounter(w, "lines_cached")
            /\ task_pc' = [task_pc EXCEPT ![w] = "count_hit"]
       ELSE /\ task_pc' = [task_pc EXCEPT ![w] = "get"]
            /\ UNCHANGED task_read
    /\ UNCHANGED <<cache, stats, translator_queue, disk, task_client, task_value,
                   task_how, lock_owner, pbar_n, collected, collector_pc, dump_start>>
    /\ UNCHANGED threadRest

\* optimized, lines 223-225: self.translator_queue.get() waits for a client,
\* then translator.translate is called
GetTranslator(w) ==
    /\ script = "optimized"
    /\ task_pc[w] = "get"
    /\ translator_queue # <<>>
    /\ task_client' = [task_client EXCEPT ![w] = Head(translator_queue)]
    /\ translator_queue' = Tail(translator_queue)
    /\ task_pc' = [task_pc EXCEPT ![w] = "call"]
    /\ UNCHANGED <<cache, stats, disk, task_value, task_how, lock_owner,
                   pbar_n, collected, collector_pc, dump_start>>
    /\ UNCHANGED <<threadRest, task_read>>

\* the service answers.  protected, lines 172-184: the validation keeps the
\* translation or puts the original text back, and the client is no longer
\* in use.  optimized, lines 226-233: the translation is stored in
\* self.cache with no lock and the thread sleeps with the client in hand.
ServiceAnswers(w) ==
    /\ task_pc[w] = "call"
    /\ \E v \in Values, valid \in BOOLEAN :
          IF script = "protected"
          THEN /\ task_value' = [task_value EXCEPT ![w] = IF valid THEN v ELSE tasks[w]]
               /\ task_how' = [task_how EXCEPT ![w] = IF valid THEN "translated"
                                                               ELSE "rejected"]
               /\ task_client' = [task_client EXCEPT ![w] = 0]
               /\ task_pc' = [task_pc EXCEPT ![w] = "lock_store"]
               /\ UNCHANGED <<cache, dump_start>>
          ELSE /\ valid
               /\ cache' = DictPut(cache, TaskKey(w), v)
               /\ task_value' = [task_value EXCEPT ![w] = v]
               /\ task_how' = [task_how EXCEPT ![w] = "translated"]
               /\ task_pc' = [task_pc EXCEPT ![w] = "finally"]
               /\ UNCHANGED <<task_client, dump_start>>
    /\ UNCHANGED <<stats, translator_queue, disk, lock_owner,
                   pbar_n, collected, collector_pc>>
    /\ UNCHANGED <<threadRest, task_read>>

\* the service raises.  protected, lines 192-194: errors += 1 begins.
\* optimized: the finally clause runs next.
ServiceFails(w) ==
    /\ task_pc[w] = "call"
    /\ IF script = "protected"
       THEN /\ LoadCounter(w, "errors")
            /\ task_client' = [task_client EXCEPT ![w] = 0]
            /\ task_pc' = [task_pc EXCEPT ![w] = "count_error"]
       ELSE /\ task_pc' = [task_pc EXCEPT ![w] = "finally"]
            /\ UNCHANGED <<task_client, task_read>>
    /\ task_value' = [task_value EXCEPT ![w] = tasks[w]]
    /\ task_how' = [task_how EXCEPT ![w] = "raised"]
    /\ UNCHANGED <<cache, stats, translator_queue, disk, lock_owner,
                   pbar_n, collected, collector_pc, dump_start>>
    /\ UNCHANGED threadRest

\* a finally clause that keeps the client
PutBackDropped(queue, handle) == queue

\* self.translator_queue.put(translator) of the finally clause, line 239
PutBack(queue, handle) == Append(queue, handle)

\* optimized, lines 237-243: the client goes back to the queue; after a
\* raise errors += 1 of the except clause begins
ReleaseTranslator(w) ==
    /\ script = "optimized"
    /\ task_pc[w] = "finally"
    /\ translator_queue' = PutBack(translator_queue, task_client[w])
    /\ task_client' = [task_client EXCEPT ![w] = 0]
    /\ IF task_how[w] = "raised"
       THEN /\ LoadCounter(w, "errors")
            /\ task_pc' = [task_pc EXCEPT ![w] = "count_error"]
       ELSE /\ task_pc' = [task_pc EXCEPT ![w] = "done"]
            /\ UNCHANGED task_read
    /\ UNCHANGED <<cache, stats, disk, task_value, task_how, lock_owner,
                   pbar_n, collected, collector_pc, dump_start>>
    /\ UNCHANGED threadRest

\* the counter a thread at this place is about to store
CounterAt(pc) ==
    CASE pc = "count" -> "translation_requests"
      [] pc = "count_hit" -> "lines_cached"
      [] pc = "count_error" -> "errors"

\* the store of self.stats[counter] += 1: the loaded value plus one.  Then
\* protected line 171 calls self.translator.translate; optimized line 218
\* returns self.cache[cache_key]; the except clauses return the text
\* (protected line 195, optimized line 244).
StoreCounter(w) ==
    /\ task_pc[w] \in {"count", "count_hit", "count_error"}
    /\ stats' = [stats EXCEPT ![CounterAt(task_pc[w])] = task_read[w] + 1]
    /\ CASE task_pc[w] = "count" ->
              /\ task_client' = [task_client EXCEPT ![w] = SharedTranslator]
              /\ task_pc' = [task_pc EXCEPT ![w] = "call"]
              /\ UNCHANGED <<task_value, task_how>>
         [] task_pc[w] = "count_hit" ->
              /\ TaskEnds(w, cache[TaskKey(w)], "hit")
              /\ UNCHANGED task_client
         [] task_pc[w] = "count_error" ->
              /\ task_pc' = [task_pc EXCEPT ![w] = "done"]
              /\ UNCHANGED <<task_client, task_value, task_how>>
    /\ task_read' = [task_read EXCEPT ![w] = 0]
    /\ UNCHANGED <<cache, translator_queue, disk, lock_owner,
                   pbar_n, collected, collector_pc, dump_start>>
    /\ UNCHANGED threadRest

\* protected, line 188, under the lock: self.cache[cache_key] = final_text
StoreLocked(w) ==
    /\ script = "protected"
    /\ task_pc[w] = "storing"
    /\ cache' = DictPut(cache, TaskKey(w), task_value[w])
    /\ lock_owner' = 0
    /\ task_pc' = [task_pc EXCEPT ![w] = "done"]
    /\ UNCHANGED <<stats, translator_queue, disk, task_client,
                   task_value, task_how, pbar_n, collected, collector_pc, dump_start>>
    /\ UNCHANGED <<threadRest, task_read>>

\* one turn of the as_completed loop.  protected, lines 249-274: the line is
\* counted, pbar.update(1), and every SaveEvery-th turn calls _save_cache.
\* optimized, lines 267-275: the result is put in its place.
Collect(w) ==
    /\ collector_pc = "collect"
    /\ task_pc[w] = "done"
    /\ w \notin collected
    /\ collected' = collected \cup {w}
    /\ results' = [results EXCEPT ![w] = task_value[w]]
    /\ IF script = "protected"
       THEN /\ pbar_n' = pbar_n + 1
            /\ stats' = [stats EXCEPT !.lines_translated = @ + 1]
            /\ collector_pc' = IF pbar_n' % SaveEvery = 0 THEN "save"
                               ELSE IF collected' = TaskIds THEN "finished"
                               ELSE "collect"
       ELSE /\ UNCHANGED <<pbar_n, stats>>
            /\ collector_pc' = IF collected' = TaskIds THEN "finished" ELSE "collect"
    /\ UNCHANGED <<cache, translator_queue, disk, task_pc, task_client,
                   task_value, task_how, lock_owner, dump_start>>
    /\ UNCHANGED <<workerRest, task_read>>

\* _save_cache, lines 89-91, with no lock: the cache file is opened for
\* writing, which empties it, and json.dump starts to walk self.cache
SaveOpens ==
    /\ collector_pc = "save"
    /\ disk' = CorruptFile
    /\ dump_start' = cache
    /\ collector_pc' = "dumping"
    /\ UNCHANGED <<cache, stats, translator_queue, task_pc, task_client,
                   task_value, task_how, lock_owner, pbar_n, collected>>
    /\ UNCHANGED <<threadRest, task_read>>

\* what json.dump leaves in the file: the cache, when no worker changed it
\* meanwhile; else the old or the new content, or a part of it when the
\* walk of the dict raised (lines 92-93 log the error and go on)
DumpResults(before, now) ==
    IF before = now THEN {SavedFile(now)}
    ELSE {SavedFile(before), SavedFile(now), CorruptFile}

\* _save_cache returns and the loop goes on
SaveCloses ==
    /\ collector_pc = "dumping"
    /\ disk' \in DumpResults(dump_start, cache)
    /\ collector_pc' = IF collected = TaskIds THEN "finished" ELSE "collect"
    /\ UNCHANGED <<cache, stats, translator_queue, task_pc, task_client,
                   task_value, task_how, lock_owner, pbar_n, collected, dump_start>>
    /\ UNCHANGED <<threadRest, task_read>>

WorkerNext ==
    \/ OpenExecutor
    \/ \E w \in TaskIds : StartTask(w)
    \/ \E w \in TaskIds : AcquireLock(w)
    \/ \E w \in TaskIds : CheckLocked(w)
    \/ \E w \in TaskIds : RequestShared(w)
    \/ \E w \in TaskIds : ServiceAnswers(w)
    \/ \E w \in TaskIds : ServiceFails(w)
    \/ \E w \in TaskIds : StoreCounter(w)
    \/ \E w \in TaskIds : StoreLocked(w)
    \/ \E w \in TaskIds : Collect(w)
    \/ SaveOpens
    \/ SaveCloses

BatchNext ==
    \/ OpenExecutor
    \/ \E w \in TaskIds : StartTask(w)
    \/ \E w \in TaskIds : CheckUnlocked(w)
    \/ \E w \in TaskIds : GetTranslator(w)
    \/ \E w \in TaskIds : ServiceAnswers(w)
    \/ \E w \in TaskIds : ServiceFails(w)
    \/ \E w \in TaskIds : ReleaseTranslator(w)
    \/ \E w \in TaskIds : StoreCounter(w)
    \/ \E w \in TaskIds : Collect(w)

SpecWorkers == WorkerInit /\ [][WorkerNext]_vars

SpecBatch == BatchInit /\ [][BatchNext]_vars

\* ------------------------------------------------------------------------
\* Python str predicates and the gates of the line processors
\* ------------------------------------------------------------------------
LowerLetters ==
    <<"a", "b", "c", "d", "e", "f", "g", "h", "i", "j", "k", "l", "m",
      "n", "o", "p", "q", "r", "s", "t", "u", "v", "w", "x", "y", "z">>

UpperLetters ==
    <<"A", "B", "C", "D", "E", "F", "G", "H", "I", "J", "K", "L", "M",
      "N", "O", "P", "Q", "R", "S", "T", "U", "V", "W", "X", "Y", "Z">>

\* str.upper() and str.lower() of one character
UpperOf(c) ==
    IF c \in Range(LowerLetters)
    THEN UpperLetters[CHOOSE i \in DOMAIN LowerLetters : LowerLetters[i] = c]
    ELSE c

LowerOf(c) ==
    IF c \in Range(UpperLetters)
    THEN LowerLetters[CHOOSE i \in DOMAIN UpperLetters : UpperLetters[i] = c]
    ELSE c

StrUpper(s) == [i \in DOMAIN s |-> UpperOf(s[i])]

StrLower(s) == [i \in DOMAIN s |-> LowerOf(s[i])]

\* str.isdigit(): not empty and every character a digit
IsDigit(s) == s # <<>> /\ \A i \in DOMAIN s : s[i] \in Digits

\* str.isupper(): a cased character, and no lowercase one
IsUpper(s) ==
    /\ \E i \in DOMAIN s : s[i] \in Range(UpperLetters)
    /\ \A i \in DOMAIN s : s[i] \notin Range(LowerLetters)

\* str.isalnum(): not empty and every character a letter or a digit
IsAlnum(s) ==
    /\ s # <<>>
    /\ \A i \in DOMAIN s :
          s[i] \in Digits \cup Range(LowerLetters) \cup Range(UpperLetters)

\* c in s
HasChar(s, c) == \E i \in DOMAIN s : s[i] = c

\* sub in s
HasSub(s, sub) == \E p \in 1..(Len(s) + 1) : MatchLit(s, p, sub)

\* str.split(): the words between runs of whitespace
RECURSIVE SplitWords(_)
SplitWords(s) ==
    LET t == Strip(s)
        gaps == {p \in DOMAIN t : t[p] \in Whitespace}
    IN  IF t = <<>> THEN <<>>
        ELSE IF gaps = {} THEN <<t>>
        ELSE <<SubSeq(t, 1, Min(gaps) - 1)>>
                 \o SplitWords(SubSeq(t, Min(gaps) + 1, Len(t)))

\* line.split('|', 1) of a line that holds a '|'
BarAt(line) == Min({p \in DOMAIN line : line[p] = "|"})

ParameterOf(line) == SubSeq(line, 1, BarAt(line) - 1)

TextOf(line) == SubSeq(line, BarAt(line) + 1, Len(line))

\* f"{parameter}|{translated_text}"
JoinLine(param, txt) == param \o <<"|">> \o txt

\* ignore_texts of OptimizedMountBladeTranslator.should_translate
ignore_texts_optimized ==
    { <<"I", "N", "V", "A", "L", "I", "D", " ", "I", "T", "E", "M">>,
      <<"N", "O", " ", "I", "T", "E", "M">>,
      <<"N", "O", "N", "E">>,
      <<"N", "U", "L", "L">>,
      <<"N", "/", "A">>,
      <<"C", "o", "r", "r", "e", "c", "t", "i", "f", " ", "b", "u", "g", " ",
        "l", "a", "n", "g", "a", "g", "e">>,
      <<"P", "L", "A", "C", "E", "H", "O", "L", "D", "E", "R">>,
      <<"T", "O", "D", "O">> }

\* ignore_texts of MountBladeTranslatorWithProgress.should_translate
ignore_texts_progress ==
    { <<"I", "N", "V", "A", "L", "I", "D", " ", "I", "T", "E", "M">>,
      <<"N", "O", " ", "I", "T", "E", "M">>,
      <<"N", "O", "N", "E">>,
      <<"C", "o", "r", "r", "e", "c", "t", "i", "f", " ", "b", "u", "g", " ",
        "l", "a", "n", "g", "a", "g", "e">> }

\* french_words of is_french_text; 'où' and 'très' hold a letter outside
\* a-z, written here as "ù" and "è"
french_words ==
    { <<"l", "e">>, <<"l", "a">>, <<"l", "e", "s">>, <<"d", "e">>, <<"d", "u">>,
      <<"d", "e", "s">>, <<"u", "n">>, <<"u", "n", "e">>, <<"e", "t">>,
      <<"o", "u">>, <<"e", "s", "t">>, <<"s", "o", "n", "t">>,
      <<"a", "v", "e", "c">>, <<"p", "o", "u", "r">>, <<"d", "a", "n", "s">>,
      <<"s", "u", "r">>, <<"p", "a", "r">>, <<"v", "o", "u", "s">>,
      <<"n", "o", "u", "s">>, <<"i", "l", "s">>, <<"e", "l", "l", "e">>,
      <<"c", "e", "t", "t", "e">>, <<"q", "u", "i">>, <<"q", "u", "e">>,
      <<"o", "ù">>, <<"c", "o", "m", "m", "e", "n", "t">>,
      <<"q", "u", "a", "n", "d">>, <<"p", "o", "u", "r", "q", "u", "o", "i">>,
      <<"t", "r", "è", "s">>, <<"p", "l", "u", "s">>, <<"m", "o", "i", "n", "s">>,
      <<"b", "i", "e", "n">>, <<"m", "a", "l">>, <<"b", "o", "n">>,
      <<"m", "a", "u", "v", "a", "i", "s">>, <<"g", "r", "a", "n", "d">>,
      <<"p", "e", "t", "i", "t">> }

\* MountBladeTranslatorWithProgress.is_french_text: more than 20% of the
\* words hold a French word
IsFrenchText(txt) ==
    LET words == SplitWords(StrLower(txt))
        french_count ==
            Cardinality({i \in DOMAIN words :
                            \E fw \in french_words : HasSub(words[i], fw)})
    IN  IF words = <<>> THEN FALSE
        ELSE 5 * french_count > Len(words)

\* MountBladeTranslatorWithProgress.should_translate
ShouldTranslateProgress(txt) ==
    LET t == Strip(txt)
    IN  IF Len(t) < 3 THEN FALSE
        ELSE IF IsDigit(t) THEN FALSE
        ELSE IF IsUpper(t) /\ HasChar(t, "_") THEN FALSE
        ELSE IF t \in ignore_texts_progress THEN FALSE
        ELSE IsFrenchText(t)

\* what langdetect.detect may do with a text: name a language, or raise
\* LangDetectException
ClassifierAnswers == {"pt", "fr", "es", "raises"}

\* OptimizedMountBladeTranslator.detect_language
DetectOptimized(txt, answer) ==
    IF Len(Strip(txt)) < 3 THEN "unknown"
    ELSE IF answer = "raises" THEN "unknown"
    ELSE answer

\* OptimizedMountBladeTranslator.should_translate, with the answer of the
\* classifier when it is asked
ShouldTranslateOptimized(txt, answer) ==
    LET t == Strip(txt)
    IN  IF Len(t) < 2 THEN FALSE
        ELSE IF IsDigit(t) THEN FALSE
        ELSE IF IsUpper(t) /\ (HasChar(t, "_") \/ IsAlnum(t)) THEN FALSE
        ELSE IF StrUpper(t) \in ignore_texts_optimized THEN FALSE
        ELSE IF DetectOptimized(t, answer) = "pt" THEN FALSE
        ELSE DetectOptimized(t, answer) # "unknown"

\* whether should_translate of the optimized translator gets as far as
\* its call of detect_language (line 194)
CallsDetect(txt) ==
    LET t == Strip(txt)
    IN  /\ Len(t) >= 2
        /\ ~IsDigit(t)
        /\ ~(IsUpper(t) /\ (HasChar(t, "_") \/ IsAlnum(t)))
        /\ StrUpper(t) \notin ignore_texts_optimized

\* MountBladeTranslator.detect_language: None when the text is short or the
\* classifier raises
DetectCsv(txt, answer) ==
    IF Len(Strip(txt)) < 3 THEN "None"
    ELSE IF answer = "raises" THEN "None"
    ELSE answer

\* ------------------------------------------------------------------------
\* SpecRecord: one line of a CSV file, as a string, through the line
\* processor of a script: process_csv_line (csv) or process_line (progress,
\* optimized), with the gate, the classifier and the call of the service.
\* ------------------------------------------------------------------------
\* target_lang of MountBladeTranslator.__init__; the other scripts pass
\* dest='pt'
TargetLangs(s) == IF s = "csv" THEN {"pt", "es"} ELSE {"pt"}

RecordScripts == {"csv", "progress", "optimized"}

Bonjour == <<"b", "o", "n", "j", "o", "u", "r">>

\* the text parts of the lines
RecordTexts ==
    ignore_texts_optimized \cup
    { <<>>,
      <<" ">>,
      <<"N", "O", "N", "E", " ">>,
      <<"n", "o", "n", "e">>,
      <<"1", "2">>,
      <<"A", "_", "B">>,
      <<"o", "k">>,
      Bonjour,
      <<" ">> \o Bonjour,
      <<"{", "s", "1", "}", " ", "{", "s", "2", "}">>,
      <<"{", "s", "1", "}", "^", "^">> }

\* the lines given to the line processor (the reader has taken the line
\* ending off)
RecordLines ==
    {JoinLine(<<"i", "d">>, t) : t \in RecordTexts}
        \cup { <<"i", "d">>, <<" ", "i", "d">>, <<"i", "d", " ">>, <<>>,
               <<" ">> \o JoinLine(<<"i", "d">>, Bonjour) }

\* what the service may answer
RecordValues == { <<"o", "l", "a">> }

\* a cache with the translation of one text
BonjourCached == DictPut(EmptyDict, CacheKey("optimized", "fr", Bonjour), <<"o", "i">>)

RecordInit ==
    /\ script \in RecordScripts
    /\ target_lang \in TargetLangs(script)
    /\ record \in RecordLines
    /\ rec_pc = "split"
    /\ parameter = <<>>
    /\ rec_text = <<>>
    /\ detections = <<>>
    /\ rec_out = <<>>
    /\ cache \in IF script = "optimized" THEN {EmptyDict, BonjourCached} ELSE {EmptyDict}
    /\ stats = StatsOf(script)
    /\ translator_queue = IF script = "optimized" THEN SeqOfSet(Translators) ELSE <<>>
    /\ service_log = <<>>
    /\ slept = 0
    /\ src_lang = "none"
    /\ lines = <<>> /\ line_idx = 0 /\ line_pc = "idle"
    /\ translator = 0 /\ returned = <<>> /\ outcome = <<>>
    /\ TextIdle
    /\ RunIdle
    /\ WorkerIdle
    /\ FileIdle

\* what the actions of the line processor leave alone
recordRest == <<textVars, runVars, workerVars, fileVars, script, lines, line_idx, line_pc,
                returned, outcome, record, target_lang>>

\* the line processor returns ret
RecordReturns(ret) ==
    /\ rec_out' = ret
    /\ rec_pc' = "returned"

\* line.strip(), the '|' test and the split: csv lines 129-146, progress
\* lines 170-182, optimized lines 289-301.  process_csv_line also returns a
\* line whose text part is blank.
SplitRecord ==
    /\ rec_pc = "split"
    /\ LET line == Strip(record)
       IN  IF ~HasChar(line, "|")
           THEN /\ RecordReturns(line)
                /\ UNCHANGED <<parameter, rec_text>>
           ELSE IF script = "csv" /\ Strip(TextOf(line)) = <<>>
           THEN /\ RecordReturns(line)
                /\ parameter' = ParameterOf(line)
                /\ rec_text' = TextOf(line)
           ELSE /\ parameter' = ParameterOf(line)
                /\ rec_text' = TextOf(line)
                /\ rec_pc' = "gate"
                /\ UNCHANGED rec_out
    /\ UNCHANGED <<cache, stats, translator_queue, translator, service_log, slept,
                   src_lang, detections>>
    /\ UNCHANGED recordRest

\* MountBladeTranslator.translate_text, lines 96-107: the text is sent to
\* the service unless detect_language gives 'pt'
GateRecordCsv ==
    /\ script = "csv" /\ rec_pc = "gate"
    /\ \E answer \in ClassifierAnswers :
          LET detected_lang == DetectCsv(rec_text, answer)
          IN  /\ detections' = <<detected_lang>>
              /\ IF detected_lang = "pt"
                 THEN /\ RecordReturns(JoinLine(parameter, rec_text))
                      /\ UNCHANGED <<service_log, src_lang>>
                 ELSE /\ src_lang' = "auto"
                      /\ service_log' = Append(service_log, <<"auto", rec_text>>)
                      /\ rec_pc' = "call"
                      /\ UNCHANGED rec_out
    /\ UNCHANGED <<cache, stats, translator_queue, translator, slept, parameter, rec_text>>
    /\ UNCHANGED recordRest

\* MountBladeTranslatorWithProgress.process_line, lines 185-191
GateRecordProgress ==
    /\ script = "progress" /\ rec_pc = "gate"
    /\ IF ShouldTranslateProgress(rec_text)
       THEN /\ src_lang' = "fr"
            /\ service_log' = Append(service_log, <<"fr", rec_text>>)
            /\ rec_pc' = "call"
            /\ UNCHANGED <<stats, rec_out>>
       ELSE /\ stats' = [stats EXCEPT !.lines_skipped = @ + 1]
            /\ RecordReturns(JoinLine(parameter, rec_text))
            /\ UNCHANGED <<service_log, src_lang>>
    /\ UNCHANGED <<cache, translator_queue, translator, slept, parameter, rec_text,
                   detections>>
    /\ UNCHANGED recordRest

\* the languages detect_language adds to stats['languages_detected']
Detected(langs) == langs \ {"unknown"}

\* OptimizedMountBladeTranslator.process_line, lines 304-315:
\* should_translate, then detect_language again for the source language
GateRecordOptimized ==
    /\ script = "optimized" /\ rec_pc = "gate"
    /\ \E answer \in ClassifierAnswers :
          LET called == CallsDetect(rec_text)
              first == DetectOptimized(rec_text, answer)
          IN  IF ShouldTranslateOptimized(rec_text, answer)
              THEN \E again \in ClassifierAnswers :
                      LET second == DetectOptimized(rec_text, again)
                      IN  /\ detections' = <<first, second>>
                          /\ stats' = [stats EXCEPT !.languages_detected =
                                          @ \cup Detected({first, second})]
                          /\ src_lang' = IF second = "unknown" THEN "auto" ELSE second
                          /\ rec_pc' = "lookup"
                          /\ UNCHANGED rec_out
              ELSE /\ detections' = IF called THEN <<first>> ELSE <<>>
                   /\ stats' = [stats EXCEPT
                         !.lines_skipped = @ + 1,
                         !.languages_detected =
                             @ \cup (IF called THEN Detected({first}) ELSE {})]
                   /\ RecordReturns(JoinLine(parameter, rec_text))
                   /\ UNCHANGED src_lang
    /\ UNCHANGED <<cache, translator_queue, translator, service_log, slept,
                   parameter, rec_text>>
    /\ UNCHANGED recordRest

\* translate_text_cached, lines 214-226: a hit returns the cached value; a
\* miss takes a client from the queue and calls the service
LookupRecord ==
    /\ script = "optimized" /\ rec_pc = "lookup"
    /\ LET cache_key == CacheKey(script, src_lang, rec_text)
       IN  IF CacheHit(cache, cache_key)
           THEN /\ stats' = [stats EXCEPT !.lines_cached = @ + 1,
                                          !.lines_translated = @ + 1]
                /\ RecordReturns(JoinLine(parameter, cache[cache_key]))
                /\ UNCHANGED <<translator, translator_queue, service_log>>
           ELSE /\ translator_queue # <<>>
                /\ translator' = Head(translator_queue)
                /\ translator_queue' = Tail(translator_queue)
                /\ service_log' = Append(service_log, <<src_lang, rec_text>>)
                /\ rec_pc' = "call"
                /\ UNCHANGED <<stats, rec_out>>
    /\ UNCHANGED <<cache, slept, src_lang, parameter, rec_text, detections>>
    /\ UNCHANGED recordRest

\* the service answers: csv lines 109-114 and 149-152; progress lines
\* 148-153 and 187-188; optimized lines 227-239 and 311-313
RecordCallReturns ==
    /\ rec_pc = "call"
    /\ \E v \in RecordValues :
          /\ cache' = IF script = "optimized"
                      THEN DictPut(cache, CacheKey(script, src_lang, rec_text), v)
                      ELSE cache
          /\ RecordReturns(JoinLine(parameter, v))
    /\ stats' = IF script = "csv" THEN stats
                ELSE [stats EXCEPT !.lines_translated = @ + 1]
    /\ slept' = IF script = "csv" THEN slept ELSE slept + 1
    /\ translator' = 0
    /\ translator_queue' = IF script = "optimized"
                           THEN PutBack(translator_queue, translator)
                           ELSE translator_queue
    /\ UNCHANGED <<service_log, src_lang, parameter, rec_text, detections>>
    /\ UNCHANGED recordRest

\* the service raises: csv lines 116-118; progress lines 155-158;
\* optimized lines 237-244
RecordCallRaises ==
    /\ rec_pc = "call"
    /\ RecordReturns(JoinLine(parameter, rec_text))
    /\ stats' = IF script = "csv" THEN stats
                ELSE [stats EXCEPT !.errors = @ + 1, !.lines_translated = @ + 1]
    /\ translator' = 0
    /\ translator_queue' = IF script = "optimized"
                           THEN PutBack(translator_queue, translator)
                           ELSE translator_queue
    /\ UNCHANGED <<cache, service_log, slept, src_lang, parameter, rec_text,
                   detections>>
    /\ UNCHANGED recordRest

RecordNext ==
    \/ SplitRecord
    \/ GateRecordCsv
    \/ GateRecordProgress
    \/ GateRecordOptimized
    \/ LookupRecord
    \/ RecordCallReturns
    \/ RecordCallRaises

SpecRecord == RecordInit /\ [][RecordNext]_vars

\* ------------------------------------------------------------------------
\* SpecFile: one input file through process_csv_file (csv),
\* process_file_optimized (optimized) or translate_csv_file (protected),
\* where the processing of an entry may raise an exception that the line
\* processor does not catch.
\* ------------------------------------------------------------------------
FileScripts == {"csv", "optimized", "protected"}

\* the lines a file may hold
FileLines == {"a|x", "b|y"}

\* what the processing of an entry gives when nothing is raised: the line
\* as it was, or the line with its text translated
Hows == {"kept", "translated"}

\* the original line, as a line of the output
Original(line) == <<line, "kept">>

FileInit ==
    /\ script \in FileScripts
    /\ file_lines \in UNION {[1..n -> FileLines] : n \in 0..MaxEntries}
    /\ entry_state = [i \in DOMAIN file_lines |-> "pending"]
    /\ processed_lines = IF script = "protected"
                         THEN [i \in DOMAIN file_lines |-> Original(file_lines[i])]
                         ELSE <<>>
    /\ output_exists = (script = "csv")
    /\ outfile = <<>>
    /\ file_pc = "lines"
    /\ stats = StatsOf(script)
    /\ cache = EmptyDict
    /\ lines = <<>> /\ line_idx = 0 /\ line_pc = "idle" /\ src_lang = "none"
    /\ translator_queue = <<>> /\ translator = 0
    /\ returned = <<>> /\ outcome = <<>>
    /\ service_log = <<>> /\ slept = 0
    /\ TextIdle
    /\ RunIdle
    /\ WorkerIdle
    /\ RecordIdle

fileRest == <<cache, textVars, lineVars, runVars, workerVars, recordVars, file_lines>>

Pending == {i \in DOMAIN entry_state : entry_state[i] = "pending"}

\* the entries that may be handled next: csv and optimized read the lines
\* in order, as_completed gives the futures of protected in any order
NextEntries == IF script = "protected" THEN Pending
               ELSE IF Pending = {} THEN {} ELSE {Min(Pending)}

\* an entry is processed and nothing is raised: csv lines 177-180,
\* optimized lines 348-349 (with the counters of process_line), protected
\* lines 253-265
EntryDone ==
    /\ file_pc = "lines"
    /\ \E i \in NextEntries, how \in Hows :
          /\ entry_state' = [entry_state EXCEPT ![i] = "done"]
          /\ CASE script = "csv" ->
                    /\ outfile' = Append(outfile, <<file_lines[i], how>>)
                    /\ UNCHANGED <<processed_lines, stats>>
               [] script = "optimized" ->
                    /\ processed_lines' = Append(processed_lines, <<file_lines[i], how>>)
                    /\ stats' = IF how = "translated"
                                THEN [stats EXCEPT !.lines_translated = @ + 1]
                                ELSE [stats EXCEPT !.lines_skipped = @ + 1]
                    /\ UNCHANGED outfile
               [] script = "protected" ->
                    /\ processed_lines' =
                           [processed_lines EXCEPT ![i] = <<file_lines[i], how>>]
                    /\ stats' = [stats EXCEPT !.lines_translated = @ + 1]
                    /\ UNCHANGED outfile
    /\ UNCHANGED <<output_exists, file_pc>>
    /\ UNCHANGED fileRest

\* the processing of an entry raises an exception.  csv, lines 190-194: the
\* original line is written and errors counted.  protected, lines 267-269:
\* errors counted, the row stays as it was.  optimized: process_line is
\* inside the try of the whole file, so lines 374-376 end the file.
EntryRaises ==
    /\ file_pc = "lines"
    /\ \E i \in NextEntries :
          /\ entry_state' = [entry_state EXCEPT ![i] = "raised"]
          /\ CASE script = "csv" ->
                    /\ outfile' = Append(outfile, Original(file_lines[i]))
                    /\ stats' = [stats EXCEPT !.errors = @ + 1]
                    /\ UNCHANGED file_pc
               [] script = "optimized" ->
                    /\ file_pc' = "failed"
                    /\ UNCHANGED <<outfile, stats>>
               [] script = "protected" ->
                    /\ stats' = [stats EXCEPT !.errors = @ + 1]
                    /\ UNCHANGED <<outfile, file_pc>>
    /\ UNCHANGED <<processed_lines, output_exists>>
    /\ UNCHANGED fileRest

\* the number of entries in a state
Count(state) == Cardinality({i \in DOMAIN entry_state : entry_state[i] = state})

\* after the last entry.  csv, lines 196-198: lines_processed is added to
\* lines_translated.  optimized, lines 367-372: the lines held in memory are
\* written.  protected, lines 222-224 and 277-283: an empty file returns at
\* once, otherwise the rows are written and the file counted.
EndOfFile ==
    /\ file_pc = "lines"
    /\ Pending = {}
    /\ file_pc' = "returned"
    /\ CASE script = "csv" ->
              /\ stats' = [stats EXCEPT !.lines_translated = @ + Count("done")]
              /\ UNCHANGED <<outfile, output_exists>>
         [] script = "optimized" ->
              /\ outfile' = processed_lines
              /\ output_exists' = TRUE
              /\ UNCHANGED stats
         [] script = "protected" ->
              IF file_lines = <<>>
              THEN UNCHANGED <<outfile, output_exists, stats>>
              ELSE /\ outfile' = processed_lines
                   /\ output_exists' = TRUE
                   /\ stats' = [stats EXCEPT !.files_processed = @ + 1]
    /\ UNCHANGED <<entry_state, processed_lines>>
    /\ UNCHANGED fileRest

FileNext ==
    \/ EntryDone
    \/ EntryRaises
    \/ EndOfFile

SpecFile == FileInit /\ [][FileNext]_vars

\* ========================================================================
\* Claims
\* ========================================================================

\* ------------------------------------------------------------------------
\* C1  Token round trip: for every input made of plain text and of tokens
\* of the recognized classes, in any number and order, restoring the
\* protected text with its mapping gives the input back.
\* ------------------------------------------------------------------------
C1_RoundTrip ==
    (stage = "roundtrip" /\ PlainTextAndTokens(text)) => restored_text = text

\* ------------------------------------------------------------------------
\* C2  Validation soundness: _translate_text accepts a translation only
\* when the bag of brace and double-caret tokens of the restored text
\* equals that of the original text.
\* ------------------------------------------------------------------------
C2_ValidationSound ==
    (stage = "done" /\ accepted) => TokenBag(restored_text) = TokenBag(text)

\* ------------------------------------------------------------------------
\* C4  Fallback guarantee: in each script, when the call of the service
\* raises for a line, the text returned for that line is the original text
\* and the script's 'errors' counter grows by exactly one.
\* ------------------------------------------------------------------------
ServiceRaised ==
    /\ line_pc = "call"
    /\ Len(outcome') = Len(outcome) + 1
    /\ outcome'[Len(outcome')] = "raised"

C4_FallbackGuarantee ==
    [][ServiceRaised =>
          /\ returned'[Len(returned')] = CurrentLine
          /\ stats'.errors = stats.errors + 1]_vars

\* ------------------------------------------------------------------------
\* C5  Cache load is never fatal: with the cache file missing or corrupt,
\* the constructor completes with an empty cache and no exception leaves
\* it.
\* ------------------------------------------------------------------------
C5_CacheLoadNeverFatal ==
    (cache_file.state \in {"missing", "corrupt"} /\ run_pc # "construct")
        => /\ escaped # "AttributeError"
           /\ run_pc = "glob" => cache = EmptyDict

\* ------------------------------------------------------------------------
\* C6  Clean early stop: when Ctrl-C arrives while a file is processed, no
\* further file is started, the cache is written to the cache file and the
\* statistics are reported before the run ends; a run that ends normally
\* after finding files has written the cache as well.
\* ------------------------------------------------------------------------
RunEnded == run_pc \in {"returned", "raised"}

C6_CleanEarlyStop ==
    /\ (RunEnded /\ interrupted \in FilePcs)
          => /\ disk = SavedFile(cache)
             /\ stats_printed
             /\ file_idx = files_at_interrupt
    /\ (run_pc = "returned" /\ interrupted = "no" /\ n_files > 0)
          => disk = SavedFile(cache)

\* ------------------------------------------------------------------------
\* C3  Cache idempotence: when the same (source language, text) pair is
\* translated twice in one run and the service succeeds, exactly one call
\* of the service is issued for the pair; here for two worker threads that
\* may process the same text at the same time.
\* ------------------------------------------------------------------------
TaskPair(w) == <<task_lang[w], tasks[w]>>

\* the call for task w has called translate()
Called(w) ==
    \/ task_pc[w] \in {"call", "finally", "lock_store", "storing", "count_error"}
    \/ task_pc[w] = "done" /\ task_how[w] \in {"translated", "rejected", "raised"}

ServiceCalls(pair) ==
    Cardinality({w \in TaskIds : TaskPair(w) = pair /\ Called(w)})

\* the call for task w went through the cache and the service did not fail
Served(w) ==
    task_pc[w] = "done" /\ task_how[w] \in {"hit", "translated", "rejected"}

C3_CacheIdempotence ==
    \A w1, w2 \in TaskIds :
        (w1 # w2 /\ TaskPair(w1) = TaskPair(w2) /\ Served(w1) /\ Served(w2)
           /\ \A u \in TaskIds : TaskPair(u) = TaskPair(w1) => task_how[u] # "raised")
        => ServiceCalls(TaskPair(w1)) = 1

\* ------------------------------------------------------------------------
\* C7  Cache entries are immutable: no step changes the value stored under
\* a key that is in the cache, or removes the key.
\* ------------------------------------------------------------------------
C7_CacheEntriesImmutable ==
    [][\A k \in DOMAIN cache : k \in DOMAIN cache' /\ cache'[k] = cache[k]]_vars

\* ------------------------------------------------------------------------
\* C8  In ProtectedTranslator the periodic _save_cache never runs while a
\* worker is inserting into self.cache, and the check-then-write of a key
\* by one worker is not interleaved with another worker's check or write
\* of that key.
\* ------------------------------------------------------------------------
\* worker w has found its key missing and has not written it yet
InCheckThenWrite(w) ==
    task_pc[w] \in {"request", "count", "call", "lock_store", "storing"}

C8_SaveAndMutationExclusive ==
    script = "protected" =>
        /\ ~(collector_pc = "dumping" /\ \E w \in TaskIds : task_pc[w] = "storing")
        /\ \A w1, w2 \in TaskIds :
              (w1 # w2 /\ TaskKey(w1) = TaskKey(w2))
                  => ~(InCheckThenWrite(w1) /\ InCheckThenWrite(w2))

\* ------------------------------------------------------------------------
\* C9  Pool conservation in OptimizedMountBladeTranslator: the clients in
\* translator_queue and the clients held by running calls are, at every
\* moment, exactly the max_workers clients of the pool, each once; a call
\* that has ended holds none; and a worker of translate_batch that is about
\* to take a client always finds one in the queue.
\* ------------------------------------------------------------------------
Held == {w \in TaskIds : task_client[w] # 0}

C9_PoolConservation ==
    script = "optimized" =>
        /\ Len(translator_queue) + Cardinality(Held) = MaxWorkers
        /\ Range(translator_queue) \cup {task_client[w] : w \in Held} = Translators
        /\ \A w \in TaskIds : task_pc[w] \in {"queued", "check", "get", "count_hit",
                                              "count_error", "done"}
                                 => task_client[w] = 0
        /\ \A w \in TaskIds : task_pc[w] = "get" => translator_queue # <<>>

\* a call whose service raised has put its client back and ended, while
\* another call holds a client, and a call that succeeded has ended too
C9_Witness ==
    /\ script = "optimized"
    /\ \E w1, w2 \in TaskIds :
          /\ task_pc[w1] = "done" /\ task_how[w1] = "raised"
          /\ task_pc[w2] = "call" /\ task_client[w2] # 0
    /\ \E w3 \in TaskIds : task_pc[w3] = "done" /\ task_how[w3] = "translated"

\* ------------------------------------------------------------------------
\* C10  No client of the service is used by two calls at the same time:
\* any two calls that are inside translate() hold different clients.
\* ------------------------------------------------------------------------
C10_NoSharedClient ==
    \A w1, w2 \in TaskIds :
        (w1 # w2 /\ task_pc[w1] = "call" /\ task_pc[w2] = "call")
            => task_client[w1] # task_client[w2]

\* ------------------------------------------------------------------------
\* C11  A cache hit short-circuits the call of the service: when the cache
\* holds the key at the lookup, the cached value is returned, no client
\* leaves translator_queue, the service is not called and no rate-limit
\* sleep is made; in ProtectedTranslator translation_requests keeps its
\* value.
\* ------------------------------------------------------------------------
LookupFindsKey ==
    /\ line_pc = "lookup"
    /\ CacheKey(script, src_lang, CurrentLine) \in DOMAIN cache

C11_HitShortCircuits ==
    [][LookupFindsKey =>
          /\ Len(returned') = Len(returned) + 1
          /\ returned'[Len(returned')] = cache[CacheKey(script, src_lang, CurrentLine)]
          /\ translator_queue' = translator_queue
          /\ translator' = 0
          /\ service_log' = service_log
          /\ slept' = slept
          /\ cache' = cache
          /\ script = "protected" =>
                stats'.translation_requests = stats.translation_requests]_vars

\* a line of the optimized translator was served from the cache, after a
\* line that called the service and slept
C11_Witness ==
    /\ script = "optimized"
    /\ Len(outcome) = 2
    /\ outcome[1] = "translated" /\ outcome[2] = "hit"
    /\ Len(service_log) = 1 /\ slept = 1
    /\ Len(translator_queue) = MaxWorkers

\* ------------------------------------------------------------------------
\* C12  Request order is preserved: for every batch and every completion
\* order of the futures, translate_batch returns a list as long as the
\* request list whose i-th element is the result of the i-th request, never
\* None; translate_csv_file puts each translated text in the row it was
\* read from.
\* ------------------------------------------------------------------------
C12_OrderPreserved ==
    /\ collector_pc # "raised"
    /\ collector_pc = "finished" =>
          /\ Len(results) = Len(tasks)
          /\ \A i \in DOMAIN tasks :
                results[i] # "None" /\ results[i] = task_value[i]


\* C13: a text that the language classifier reports as being in the
\* configured target language is never sent to the external service, in
\* every script that asks the classifier, whatever target_lang is.  The
\* answer meant is the one the gate acted on (the first detection).
C13_GateMonotonicity ==
    (detections # <<>> /\ detections[1] = target_lang) => service_log = <<>>


\* ignore_texts of the script's should_translate
IgnoreTexts(s) ==
    IF s = "optimized" THEN ignore_texts_optimized
    ELSE IF s = "progress" THEN ignore_texts_progress
    ELSE {}

\* C14: given exactly a literal of its denylist (ignore_texts),
\* should_translate returns False whatever the classifier answers: the line
\* processor takes the skip branch.
C14_DenylistGate ==
    (rec_pc \notin {"split", "gate"} /\ rec_text \in IgnoreTexts(script))
        => (stats.lines_skipped = 1 /\ service_log = <<>>)


\* the gate of process_line rejects the text in this step
GateRejects ==
    /\ script \in {"optimized", "progress"}
    /\ rec_pc = "gate"
    /\ rec_pc' = "returned"

\* the counters the skip branch must leave alone
SkipFrame ==
    /\ stats'.lines_translated = stats.lines_translated
    /\ stats'.errors = stats.errors
    /\ script = "optimized" => stats'.lines_cached = stats.lines_cached
    /\ cache' = cache
    /\ service_log' = service_log

\* C15: when the gate rejects the text of a line 'id|text', process_line
\* returns a line identical to its input line, lines_skipped grows by
\* exactly one, lines_translated, lines_cached, errors and the cache are
\* unchanged and no external call is issued.
C15_SkipBranch ==
    [][GateRejects =>
          /\ rec_out' = record
          /\ stats'.lines_skipped = stats.lines_skipped + 1
          /\ SkipFrame]_vars


\* the text holds only formatting tokens (brace-enclosed tokens, carets)
\* and whitespace
TokenOnly(txt) == txt # <<>> /\ CleanText(txt) = <<>>

\* C16: for a text made only of formatting tokens and whitespace the gate
\* returns False for every classifier answer: the line comes back with its
\* text unchanged through the skip branch and no external call is issued.
C16_TokenOnlyNeverTranslated ==
    (script = "optimized" /\ rec_pc \notin {"split", "gate"} /\ TokenOnly(rec_text))
        => /\ rec_pc = "returned"
           /\ rec_out = JoinLine(parameter, rec_text)
           /\ stats.lines_skipped = 1
           /\ service_log = <<>>


\* C17: when the classifier raises or gives no language for a text (the
\* detection is 'unknown' or None), the text is not sent to the external
\* service, the line comes back with its text unchanged, and 'errors' does
\* not change.
C17_InconclusiveNotTranslated ==
    (detections # <<>> /\ detections[1] \in {"unknown", "None"})
        => /\ service_log = <<>>
           /\ stats.errors = 0
           /\ rec_pc = "returned"
           /\ rec_out = JoinLine(parameter, rec_text)


\* the line holds no '|', or nothing after its first '|'
PassThroughLine(line) == ~HasChar(line, "|") \/ TextOf(line) = <<>>

\* C18: for a line without '|' and for a line whose text part after the
\* first '|' is empty, the line processor returns a line equal to the input
\* line character for character, outer whitespace included, and issues no
\* external call.
C18_RecordPassThrough ==
    PassThroughLine(record)
        => /\ service_log = <<>>
           /\ rec_pc \notin {"lookup", "call"}
           /\ rec_pc = "returned" => rec_out = record


\* _translate_text rejects the translation in this step: the token check
\* after restoration fails
Rejects ==
    /\ stage = "translated"
    /\ stage' = "done"
    /\ ~accepted'

\* C19: whenever _translate_text rejects a translation because the token
\* check fails after restoration, it returns the original text and one
\* counter of self.stats grows by one.
C19_ValidationFailuresCounted ==
    [][Rejects =>
          /\ final_text' = text
          /\ \E counter \in DOMAIN stats : stats'[counter] = stats[counter] + 1]_vars


\* the processing of the file is over
FileEnded == file_pc \in {"returned", "failed"}

\* C20: when the processing of one entry raises an unexpected exception,
\* that entry's original line is in the output, 'errors' grows by one for
\* it, and every other entry of the file is still processed and written.
C20_EntryFailureIsolated ==
    (FileEnded /\ Count("raised") > 0)
        => /\ Pending = {}
           /\ stats.errors = Count("raised")
           /\ output_exists
           /\ Len(outfile) = Len(file_lines)
           /\ \A i \in DOMAIN file_lines :
                 /\ outfile[i][1] = file_lines[i]
                 /\ entry_state[i] = "raised" => outfile[i] = Original(file_lines[i])


\* the text holds a placeholder of _protect_variables
HoldsPlaceholder(s) == \E p \in DOMAIN s : s[p] \in PlaceholderBases

\* C21: a span replaced by a placeholder is not matched again by a
\* lower-priority pattern: every value of the mapping _protect_variables
\* returns is a substring of the original text and holds no placeholder.
C21_NoRematch ==
    \A i \in DOMAIN replacements :
        /\ HasSub(text, replacements[i][2])
        /\ ~HoldsPlaceholder(replacements[i][2])


\* the external call of _translate_text raises in this step
CallFails ==
    /\ stage = "calling"
    /\ stage' = "failed"

\* C22: the cache receives an entry only for a successful, accepted
\* translation: when the external call raises, or when the token validation
\* rejects the result, no entry is inserted for the key.
C22_CacheOnlySuccess ==
    [][(CallFails \/ Rejects) =>
          /\ cache' = cache
          /\ Strip(text) \notin DOMAIN cache']_vars


\* the calls of the run whose outcome is how
Ended(how) == Cardinality({w \in TaskIds : task_pc[w] = "done" /\ task_how[w] = how})

\* the worker threads have all ended and the futures are collected
AllCollected == collector_pc = "finished" /\ \A w \in TaskIds : task_pc[w] = "done"

\* C23: no increment of a stats counter is lost between the worker
\* threads: when the run is over, translation_requests is the number of
\* external calls issued, errors the number of failed calls, and
\* cache_hits / lines_cached the number of cache hits.
C23_NoLostUpdates ==
    AllCollected =>
        /\ stats.errors = Ended("raised")
        /\ script = "protected" =>
              /\ stats.translation_requests =
                     Ended("translated") + Ended("rejected") + Ended("raised")
              /\ stats.cache_hits = Ended("hit")
        /\ script = "optimized" => stats.lines_cached = Ended("hit")


\* translate_text_cached puts its client back into translator_queue in
\* this step
HandleReleased ==
    /\ script = "optimized"
    /\ line_pc = "call"
    /\ Len(translator_queue') = Len(translator_queue) + 1

\* C24: after every external call of translate_text_cached, whether it
\* returned or raised, the worker makes the fixed delay before its client
\* goes back into translator_queue.
C24_PauseBeforeRelease ==
    [][HandleReleased => slept' = slept + 1]_vars


\* C25: _restore_variables tolerates what the service did to a
\* placeholder: a placeholder whose letter case was changed, or that was
\* set between spaces, is still replaced by its original token.
C25_RestoreTolerant ==
    stage = "done" =>
        \A i \in DOMAIN replacements :
            LET placeholder == replacements[i][1]
                original == replacements[i][2]
            IN  /\ HasSub(translated, Padded(placeholder))
                      => HasSub(restored_text, Padded(original))
                /\ HasSub(translated, Lowered(placeholder))
                      => ~HasSub(restored_text, Lowered(placeholder))


\* _translate_text has returned
TextReturned == stage \in {"skipped", "hit", "done", "failed"}

\* C26: for an input text that holds no placeholder and for every answer
\* of the service, the text _translate_text returns, and the value it
\* stores in the cache, hold no placeholder generated by
\* _protect_variables.
C26_NoPlaceholderLeak ==
    (TextReturned /\ ~HoldsPlaceholder(text))
        => /\ ~HoldsPlaceholder(final_text)
           /\ \A k \in DOMAIN cache : ~HoldsPlaceholder(cache[k])

====
